---- MODULE Spec2Model ----
(***************************************************************************)
(* A model of clapy's parsing engine (src/clapy/command.py and             *)
(* src/clapy/argument.py): command-path discovery, token expansion, the    *)
(* named pass, the positional pass, the leftover check and the assembly of *)
(* the ParsedCommand chain, together with the accessors of ParsedCommand.  *)
(*                                                                         *)
(* Tokens are strings and are classified character by character, as the    *)
(* regular expressions of argument.py do.  Python values are tagged        *)
(* records (PyNone, PyStr, PyInt, PyBool, PyTuple).  One behaviour of the   *)
(* model is one call of Command.parse_from on one definition tree.         *)
(***************************************************************************)
EXTENDS Integers, Sequences, FiniteSets, TLC

(***************************************************************************)
(* Bounds of the model.                                                    *)
(***************************************************************************)
MaxLen == 4

(***************************************************************************)
(* Python values.                                                          *)
(***************************************************************************)
PyNone == [t |-> "none", s |-> "", n |-> 0, items |-> <<>>]

PyStr(s) == [t |-> "str", s |-> s, n |-> 0, items |-> <<>>]

PyInt(n) == [t |-> "int", s |-> "", n |-> n, items |-> <<>>]

PyBool(b) == [t |-> "bool", s |-> "", n |-> IF b THEN 1 ELSE 0, items |-> <<>>]

PyTuple(items) == [t |-> "tuple", s |-> "", n |-> 0, items |-> items]

NoAlias == ""

(***************************************************************************)
(* Small helpers on sequences and strings.                                 *)
(***************************************************************************)
Char(s, k) == SubSeq(s, k, k)

Range(q) == {q[k] : k \in 1..Len(q)}

RECURSIVE Concat(_)
Concat(qs) ==
    IF qs = <<>> THEN <<>> ELSE Head(qs) \o Concat(Tail(qs))

\* The sequence q without its elements a..b-1 (1-based), Python's del q[a-1:b-1].
DelSlice(q, a, b) == SubSeq(q, 1, a - 1) \o SubSeq(q, b, Len(q))

\* The position of the first "=" of s, or 0.
RECURSIVE FindEq(_, _)
FindEq(s, k) ==
    IF k > Len(s) THEN 0
    ELSE IF Char(s, k) = "=" THEN k
    ELSE FindEq(s, k + 1)

(***************************************************************************)
(* Token classification: argument.py's regular expressions.                *)
(***************************************************************************)
\* SHORT_ALIAS_REGEX  ^-[^-]$
_is_short_alias_arg(arg) ==
    Len(arg) = 2 /\ Char(arg, 1) = "-" /\ Char(arg, 2) # "-"

\* LONG_ALIAS_REGEX  ^--[^-].+$
_is_long_alias_arg(arg) ==
    Len(arg) >= 4 /\ SubSeq(arg, 1, 2) = "--" /\ Char(arg, 3) # "-"

\* SHORT_EXPANDABLE_ALIAS_REGEX  ^-(.)\1+$
_is_short_expandable_arg(arg) ==
    /\ Len(arg) >= 3
    /\ Char(arg, 1) = "-"
    /\ \A k \in 3..Len(arg) : Char(arg, k) = Char(arg, 2)

_is_named_arg(arg) ==
    \/ _is_short_alias_arg(arg)
    \/ _is_long_alias_arg(arg)
    \/ _is_short_expandable_arg(arg)

_is_positional_arg(arg) == ~ _is_named_arg(arg)

NAMED_ARGUMENTS_STOP_TOKEN == "--"

(***************************************************************************)
(* _expand_args: "--arg=value" becomes "--arg", "value"; "-vvv" becomes     *)
(* "-v", "-v", "-v".                                                       *)
(***************************************************************************)
\* ExpandOne without the expansion of "-vvv" into "-v", "-v", "-v".
ExpandOne_no_short(arg) ==
    IF _is_named_arg(arg) /\ FindEq(arg, 1) > 0
    THEN << SubSeq(arg, 1, FindEq(arg, 1) - 1),
            SubSeq(arg, FindEq(arg, 1) + 1, Len(arg)) >>
    ELSE << arg >>

\* ExpandOne without the split of "--arg=value" into "--arg", "value".
ExpandOne_no_equals(arg) ==
    IF _is_short_expandable_arg(arg)
    THEN [k \in 1..(Len(arg) - 1) |-> "-" \o Char(arg, k + 1)]
    ELSE << arg >>

ExpandOne(arg) ==
    IF _is_named_arg(arg) /\ FindEq(arg, 1) > 0
    THEN << SubSeq(arg, 1, FindEq(arg, 1) - 1),
            SubSeq(arg, FindEq(arg, 1) + 1, Len(arg)) >>
    ELSE IF _is_short_expandable_arg(arg)
    THEN [k \in 1..(Len(arg) - 1) |-> "-" \o Char(arg, k + 1)]
    ELSE << arg >>

RECURSIVE _expand_args(_)
_expand_args(args) ==
    IF args = <<>> THEN <<>>
    ELSE ExpandOne(Head(args)) \o _expand_args(Tail(args))

(***************************************************************************)
(* Argument definitions: _ArgData and the builder methods of Arg.          *)
(***************************************************************************)
NInt(n) == [kind |-> "int", start |-> n, stop |-> n]

NPlus == [kind |-> "+", start |-> 0, stop |-> 0]

NStar == [kind |-> "*", start |-> 0, stop |-> 0]

NRange(a, b) == [kind |-> "range", start |-> a, stop |-> b]

\* Arg(name): _ArgData(name) with the dataclass defaults.
Arg(name) ==
    [id |-> name, short |-> NoAlias, long |-> NoAlias, action |-> "set",
     default |-> PyNone, nargs |-> NInt(1), value_parser |-> "str",
     propagate |-> FALSE, has_valid_values |-> FALSE, valid_values |-> {}]

\* Arg.action: StoreTrue, StoreFalse and Count also set nargs to 0.
WithAction(a, action) ==
    IF action \in {"store_true", "store_false", "count"}
    THEN [a EXCEPT !.action = action, !.nargs = NInt(0)]
    ELSE [a EXCEPT !.action = action]

WithValidValues(a, vs) == [a EXCEPT !.has_valid_values = TRUE, !.valid_values = vs]

is_positional(a) == a.short = NoAlias /\ a.long = NoAlias

is_named(a) == ~ is_positional(a)

\* validate refusing every Set/Append arity whose minimum is below 1, the
\* arity "*" included.
validate_minimum_of_every_form(a) ==
    IF a.action \in {"set", "append"}
    THEN ~ (a.nargs.kind \in {"int", "range"} /\ a.nargs.start <= 0) /\ a.nargs.kind # "*"
    ELSE a.nargs.kind = "int" /\ a.nargs.start = 0

\* _ArgData.validate: TRUE when argument() accepts the argument.
validate(a) ==
    IF a.action \in {"set", "append"}
    THEN ~ (a.nargs.kind \in {"int", "range"} /\ a.nargs.start <= 0)
    ELSE a.nargs.kind = "int" /\ a.nargs.start = 0

\* _nargs_bounds reading a range as Python iterates it, its stop excluded.
_nargs_bounds_exclusive(nargs) ==
    CASE nargs.kind = "int" -> [min |-> nargs.start, max |-> nargs.start, bounded |-> TRUE]
      [] nargs.kind = "+" -> [min |-> 1, max |-> 0, bounded |-> FALSE]
      [] nargs.kind = "*" -> [min |-> 0, max |-> 0, bounded |-> FALSE]
      [] nargs.kind = "range" ->
           [min |-> nargs.start, max |-> nargs.stop - 1, bounded |-> TRUE]

\* _nargs_bounds: (min, max), bounded = FALSE standing for max = None.
_nargs_bounds(nargs) ==
    CASE nargs.kind = "int" -> [min |-> nargs.start, max |-> nargs.start, bounded |-> TRUE]
      [] nargs.kind = "+" -> [min |-> 1, max |-> 0, bounded |-> FALSE]
      [] nargs.kind = "*" -> [min |-> 0, max |-> 0, bounded |-> FALSE]
      [] nargs.kind = "range" -> [min |-> nargs.start, max |-> nargs.stop, bounded |-> TRUE]

(***************************************************************************)
(* Exceptions.  ClapyParsingError carries the kind of its message and the  *)
(* names the message holds; TypeError and AssertionError are the Python    *)
(* exceptions the parsing code can let escape.                             *)
(***************************************************************************)
NoExc == [type |-> "none", msg |-> "", names |-> <<>>]

ClapyParsingError(msg, names) ==
    [type |-> "ClapyParsingError", msg |-> msg, names |-> names]

PyError(type) == [type |-> type, msg |-> "", names |-> <<>>]

(***************************************************************************)
(* Value converters: str keeps the token, int reads an optionally signed    *)
(* decimal numeral and raises ValueError on anything else.                 *)
(***************************************************************************)
Digits == {"0", "1", "2", "3", "4", "5", "6", "7", "8", "9"}

DigitVal(c) ==
    CASE c = "0" -> 0 [] c = "1" -> 1 [] c = "2" -> 2 [] c = "3" -> 3
      [] c = "4" -> 4 [] c = "5" -> 5 [] c = "6" -> 6 [] c = "7" -> 7
      [] c = "8" -> 8 [] c = "9" -> 9

RECURSIVE DecimalVal(_, _)
DecimalVal(s, acc) ==
    IF s = "" THEN acc
    ELSE DecimalVal(SubSeq(s, 2, Len(s)), 10 * acc + DigitVal(Char(s, 1)))

IsDecimal(s) == Len(s) >= 1 /\ \A k \in 1..Len(s) : Char(s, k) \in Digits

IntParses(s) ==
    IF Len(s) >= 1 /\ Char(s, 1) \in {"+", "-"}
    THEN IsDecimal(SubSeq(s, 2, Len(s)))
    ELSE IsDecimal(s)

IntOf(s) ==
    IF Char(s, 1) = "-" THEN 0 - DecimalVal(SubSeq(s, 2, Len(s)), 0)
    ELSE IF Char(s, 1) = "+" THEN DecimalVal(SubSeq(s, 2, Len(s)), 0)
    ELSE DecimalVal(s, 0)

\* value_parser(token) raises ValueError.
RaisesValueError(value_parser, token) ==
    value_parser = "int" /\ ~ IntParses(token)

value_parser_apply(value_parser, token) ==
    IF value_parser = "int" THEN PyInt(IntOf(token)) ELSE PyStr(token)

(***************************************************************************)
(* _parse_and_consume_values: the values an argument takes from args,      *)
(* starting at position start (1-based here), removed from args.           *)
(***************************************************************************)
\* The while loop: the position after the last value taken, or the error.
RECURSIVE ConsumeLoop(_, _, _, _)
ConsumeLoop(args, i, n, b) ==
    IF i > Len(args) THEN [i |-> i, n |-> n, short |-> FALSE]
    ELSE IF _is_named_arg(args[i]) \/ args[i] = NAMED_ARGUMENTS_STOP_TOKEN
    THEN [i |-> i, n |-> n, short |-> n < b.min]
    ELSE IF b.bounded /\ n + 1 = b.max THEN [i |-> i + 1, n |-> n + 1, short |-> FALSE]
    ELSE ConsumeLoop(args, i + 1, n + 1, b)

_parse_and_consume_values(args, start, arg_data, arg_name) ==
    IF arg_data.action \in {"store_true", "store_false", "count"}
    THEN [values |-> << "dummy" >>, args |-> args, exc |-> NoExc]
    ELSE LET r == ConsumeLoop(args, start, 0, _nargs_bounds(arg_data.nargs))
         IN  IF r.short
             THEN [values |-> <<>>, args |-> args,
                   exc |-> ClapyParsingError("Missing argument values", << arg_name >>)]
             ELSE [values |-> SubSeq(args, start, r.i - 1),
                   args |-> DelSlice(args, start, r.i),
                   exc |-> NoExc]

(***************************************************************************)
(* Command definitions: _CommandData and the builder methods of Command.   *)
(* A definition tree is a function from command names to _CommandData;     *)
(* subcommands holds the names of the subcommands in insertion order.      *)
(***************************************************************************)
NoParent == ""

\* Command(name): _CommandData(name) with the dataclass defaults.
Command(name) ==
    [name |-> name, mandatory_subcommand |-> TRUE, no_args_requests_help |-> TRUE,
     help_options |-> << "--help", "-h" >>, arguments |-> <<>>,
     subcommands |-> <<>>, _parent |-> NoParent]

(***************************************************************************)
(* ParsedArg and the results of the passes.  A pass returns the parsed     *)
(* arguments (a function from argument ids to ParsedArg), the argument     *)
(* lists after consumption, and the exception it raised, if any.           *)
(***************************************************************************)
ParsedArg(value, action) == [value |-> value, action |-> action]

NoArgs == [x \in {} |-> ParsedArg(PyNone, "set")]

Put(parsed_args, id, parsed_arg) ==
    [x \in (DOMAIN parsed_args) \cup {id} |->
        IF x = id THEN parsed_arg ELSE parsed_args[x]]

\* dict.update
Update(parsed_args, more) ==
    [x \in (DOMAIN parsed_args) \cup (DOMAIN more) |->
        IF x \in DOMAIN more THEN more[x] ELSE parsed_args[x]]

\* Collapse without the special case of a single value.
Collapse_always_tuple(parsed_values, action) == ParsedArg(PyTuple(parsed_values), action)

\* A single value collapses to a scalar, anything else is stored as a tuple.
Collapse(parsed_values, action) ==
    IF Len(parsed_values) = 1
    THEN ParsedArg(parsed_values[1], action)
    ELSE ParsedArg(PyTuple(parsed_values), action)

\* ", ".join(valid_values) raises TypeError when a member is not a string.
JoinRaisesTypeError(valid_values) == \E v \in valid_values : v.t # "str"

\* NamedArgsData with parse_only_propagated ignored.
NamedArgsData_all_arguments(cmd, parse_only_propagated) ==
    SelectSeq(cmd.arguments, LAMBDA a : is_named(a))

(***************************************************************************)
(* _parse_and_consume_named_args                                           *)
(***************************************************************************)
\* named_args_ids_map, as the sequence of its values.
NamedArgsData(cmd, parse_only_propagated) ==
    SelectSeq(cmd.arguments,
              LAMBDA a : is_named(a) /\ (~ parse_only_propagated \/ a.propagate))

\* named_args_map.get(alias): the last definition holding the alias, or 0.
RECURSIVE NamedArgsMapGet(_, _, _)
NamedArgsMapGet(named, alias, k) ==
    IF k = 0 THEN 0
    ELSE IF named[k].long = alias \/ named[k].short = alias THEN k
    ELSE NamedArgsMapGet(named, alias, k - 1)

\* consumed_values[alias].append(values), keeping the insertion order of aliases.
RECURSIVE AppendConsumed(_, _, _)
AppendConsumed(consumed_values, alias, values) ==
    IF consumed_values = <<>>
    THEN << [alias |-> alias, groups |-> << values >>] >>
    ELSE IF Head(consumed_values).alias = alias
    THEN << [alias |-> alias, groups |-> Append(Head(consumed_values).groups, values)] >>
         \o Tail(consumed_values)
    ELSE << Head(consumed_values) >> \o AppendConsumed(Tail(consumed_values), alias, values)

\* The scan of the argument lists: list li, position i.
RECURSIVE NamedScan(_, _, _, _, _)
NamedScan(named, arg_lists, li, i, consumed_values) ==
    IF li > Len(arg_lists)
    THEN [arg_lists |-> arg_lists, consumed_values |-> consumed_values, exc |-> NoExc]
    ELSE IF i > Len(arg_lists[li])
    THEN NamedScan(named, arg_lists, li + 1, 1, consumed_values)
    ELSE LET arg == arg_lists[li][i]
             d == IF _is_named_arg(arg) THEN NamedArgsMapGet(named, arg, Len(named)) ELSE 0
         IN  IF d = 0
             THEN NamedScan(named, arg_lists, li, i + 1, consumed_values)
             ELSE LET r == _parse_and_consume_values(arg_lists[li], i + 1, named[d], arg)
                  IN  IF r.exc # NoExc
                      THEN [arg_lists |-> arg_lists, consumed_values |-> consumed_values,
                            exc |-> r.exc]
                      ELSE NamedScan(named,
                                     [arg_lists EXCEPT ![li] = DelSlice(r.args, i, i + 1)],
                                     li, i,
                                     AppendConsumed(consumed_values, arg, r.values))

\* IsRepeated with the check left out.
IsRepeated_never(arg_data, groups) == FALSE

\* The check that a Set argument was given more than one group of values.
IsRepeated(arg_data, groups) == Len(groups) > 1 /\ arg_data.action = "set"

\* The ParsedArg of one alias of consumed_values, or the exception raised.
NamedParsedArg(arg_data, alias, groups) ==
    CASE arg_data.action \in {"store_true", "store_false"} ->
           [parsed_arg |-> ParsedArg(PyBool(arg_data.action = "store_true"), arg_data.action),
            exc |-> NoExc]
      [] arg_data.action = "count" ->
           [parsed_arg |-> ParsedArg(PyInt(Len(groups)), arg_data.action), exc |-> NoExc]
      [] arg_data.action \in {"set", "append"} ->
           LET flattened_values == Concat(groups)
               parsed_values ==
                   [k \in 1..Len(flattened_values) |->
                       value_parser_apply(arg_data.value_parser, flattened_values[k])]
               none == ParsedArg(PyNone, arg_data.action)
           IN  IF IsRepeated(arg_data, groups)
               THEN [parsed_arg |-> none,
                     exc |-> ClapyParsingError("Repeated argument", << alias >>)]
               ELSE IF \E k \in 1..Len(flattened_values) :
                          RaisesValueError(arg_data.value_parser, flattened_values[k])
               THEN [parsed_arg |-> none,
                     exc |-> ClapyParsingError("Wrong value type", flattened_values)]
               ELSE IF arg_data.has_valid_values /\ JoinRaisesTypeError(arg_data.valid_values)
               THEN [parsed_arg |-> none, exc |-> PyError("TypeError")]
               ELSE IF /\ arg_data.has_valid_values
                       /\ \E k \in 1..Len(parsed_values) :
                              parsed_values[k] \notin arg_data.valid_values
               THEN [parsed_arg |-> none,
                     exc |-> ClapyParsingError("Invalid value", << alias >>)]
               ELSE [parsed_arg |-> Collapse(parsed_values, arg_data.action), exc |-> NoExc]

\* The loop over consumed_values; ids holds the keys left in named_args_ids_map.
RECURSIVE NamedProcess(_, _, _, _)
NamedProcess(named, consumed_values, ids, parsed_args) ==
    IF consumed_values = <<>>
    THEN [parsed_args |-> parsed_args, ids |-> ids, exc |-> NoExc]
    ELSE LET alias == Head(consumed_values).alias
             arg_data == named[NamedArgsMapGet(named, alias, Len(named))]
         IN  IF arg_data.id \notin ids
             THEN [parsed_args |-> parsed_args, ids |-> ids,
                   exc |-> ClapyParsingError("Repeated argument", << alias >>)]
             ELSE LET r == NamedParsedArg(arg_data, alias, Head(consumed_values).groups)
                  IN  IF r.exc # NoExc
                      THEN [parsed_args |-> parsed_args, ids |-> ids, exc |-> r.exc]
                      ELSE NamedProcess(named, Tail(consumed_values), ids \ {arg_data.id},
                                        Put(parsed_args, arg_data.id, r.parsed_arg))

\* The alias text of the missing-required-named-argument message.
MissingNamedText(arg_data) ==
    (IF arg_data.long # NoAlias THEN arg_data.long ELSE "")
    \o (IF arg_data.long # NoAlias /\ arg_data.short # NoAlias THEN "/" ELSE "")
    \o (IF arg_data.short # NoAlias THEN arg_data.short ELSE "")

\* UnparsedArg with the default of a Set/Append argument passed through the
\* value converter of the argument.
UnparsedArg_converted(arg_data) ==
    CASE arg_data.action \in {"set", "append"} ->
           IF arg_data.default # PyNone
           THEN [parsed_arg |->
                    ParsedArg(IF arg_data.default.t = "str"
                              THEN value_parser_apply(arg_data.value_parser,
                                                      arg_data.default.s)
                              ELSE arg_data.default,
                              arg_data.action),
                 exc |-> NoExc]
           ELSE [parsed_arg |-> ParsedArg(PyNone, arg_data.action),
                 exc |-> ClapyParsingError("Missing required named argument", <<>>)]
      [] arg_data.action \in {"store_true", "store_false"} ->
           [parsed_arg |-> ParsedArg(PyBool(arg_data.action # "store_true"),
                                     arg_data.action),
            exc |-> NoExc]
      [] arg_data.action = "count" ->
           [parsed_arg |-> ParsedArg(PyInt(0), arg_data.action), exc |-> NoExc]

\* The ParsedArg of a named argument that was not parsed: the default as it
\* was configured, the negated flag, a count of 0, or the error.
UnparsedArg(arg_data) ==
    CASE arg_data.action \in {"set", "append"} ->
           IF arg_data.default # PyNone
           THEN [parsed_arg |-> ParsedArg(arg_data.default, arg_data.action), exc |-> NoExc]
           ELSE [parsed_arg |-> ParsedArg(PyNone, arg_data.action),
                 exc |-> ClapyParsingError("Missing required named argument",
                                           << MissingNamedText(arg_data) >>)]
      [] arg_data.action \in {"store_true", "store_false"} ->
           [parsed_arg |-> ParsedArg(PyBool(arg_data.action # "store_true"),
                                     arg_data.action),
            exc |-> NoExc]
      [] arg_data.action = "count" ->
           [parsed_arg |-> ParsedArg(PyInt(0), arg_data.action), exc |-> NoExc]

\* The loop over the arguments left in named_args_ids_map.
RECURSIVE NamedDefaults(_, _, _, _)
NamedDefaults(named, k, ids, parsed_args) ==
    IF k > Len(named) THEN [parsed_args |-> parsed_args, exc |-> NoExc]
    ELSE IF named[k].id \notin ids
    THEN NamedDefaults(named, k + 1, ids, parsed_args)
    ELSE LET r == UnparsedArg(named[k])
         IN  IF r.exc # NoExc THEN [parsed_args |-> parsed_args, exc |-> r.exc]
             ELSE NamedDefaults(named, k + 1, ids,
                                Put(parsed_args, named[k].id, r.parsed_arg))

_parse_and_consume_named_args(cmd, arg_lists, parse_only_propagated) ==
    LET named == NamedArgsData(cmd, parse_only_propagated)
        ids == {named[k].id : k \in 1..Len(named)}
        scan == NamedScan(named, arg_lists, 1, 1, <<>>)
        proc == NamedProcess(named, scan.consumed_values, ids, NoArgs)
        dflt == NamedDefaults(named, 1, proc.ids, proc.parsed_args)
    IN  IF scan.exc # NoExc
        THEN [parsed_args |-> NoArgs, arg_lists |-> scan.arg_lists,
              consumed_values |-> scan.consumed_values, exc |-> scan.exc]
        ELSE IF proc.exc # NoExc
        THEN [parsed_args |-> NoArgs, arg_lists |-> scan.arg_lists,
              consumed_values |-> scan.consumed_values, exc |-> proc.exc]
        ELSE [parsed_args |-> dflt.parsed_args, arg_lists |-> scan.arg_lists,
              consumed_values |-> scan.consumed_values, exc |-> dflt.exc]

(***************************************************************************)
(* _parse_and_consume_positional_args                                      *)
(***************************************************************************)
PositionalArgsData(cmd, parse_only_propagated) ==
    SelectSeq(cmd.arguments,
              LAMBDA a : is_positional(a) /\ (~ parse_only_propagated \/ a.propagate))

\* The scan of the argument lists: list li, position arg_i, definition
\* positional_data_i.  arg_i advances by one after every token, also after
\* a token whose values were just removed from the list.
RECURSIVE PositionalScan(_, _, _, _, _, _)
PositionalScan(positional, arg_lists, li, arg_i, positional_data_i, consumed_values) ==
    IF li > Len(arg_lists)
    THEN [arg_lists |-> arg_lists, consumed_values |-> consumed_values, exc |-> NoExc]
    ELSE IF arg_i > Len(arg_lists[li]) \/ positional_data_i > Len(positional)
    THEN PositionalScan(positional, arg_lists, li + 1, 1, positional_data_i,
                        consumed_values)
    ELSE IF _is_positional_arg(arg_lists[li][arg_i])
    THEN LET arg_data == positional[positional_data_i]
             r == _parse_and_consume_values(arg_lists[li], arg_i, arg_data, arg_data.id)
         IN  IF r.exc # NoExc
             THEN [arg_lists |-> arg_lists, consumed_values |-> consumed_values,
                   exc |-> r.exc]
             ELSE PositionalScan(positional, [arg_lists EXCEPT ![li] = r.args], li,
                                 arg_i + 1, positional_data_i + 1,
                                 Append(consumed_values, r.values))
    ELSE PositionalScan(positional, arg_lists, li, arg_i + 1, positional_data_i,
                        consumed_values)

\* The ParsedArg of one positional definition; has_values = FALSE stands for
\* the None that zip_longest pairs with a definition that consumed nothing.
PositionalParsedArg(arg_data, has_values, values) ==
    LET parsed_values ==
            [k \in 1..Len(values) |-> value_parser_apply(arg_data.value_parser, values[k])]
        none == ParsedArg(PyNone, arg_data.action)
    IN  IF arg_data.action # "set"
        THEN [parsed_arg |-> none, exc |-> PyError("AssertionError")]
        ELSE IF ~ has_values
        THEN IF arg_data.default # PyNone
             THEN [parsed_arg |-> ParsedArg(arg_data.default, arg_data.action),
                   exc |-> NoExc]
             ELSE [parsed_arg |-> none,
                   exc |-> ClapyParsingError("Missing required positional argument",
                                             << arg_data.id >>)]
        ELSE IF \E k \in 1..Len(values) : RaisesValueError(arg_data.value_parser, values[k])
        THEN [parsed_arg |-> none, exc |-> ClapyParsingError("Wrong value type", values)]
        ELSE IF arg_data.has_valid_values /\ JoinRaisesTypeError(arg_data.valid_values)
        THEN [parsed_arg |-> none, exc |-> PyError("TypeError")]
        ELSE IF /\ arg_data.has_valid_values
                /\ \E k \in 1..Len(parsed_values) :
                       parsed_values[k] \notin arg_data.valid_values
        THEN [parsed_arg |-> none,
              exc |-> ClapyParsingError("Invalid value", << arg_data.id >>)]
        ELSE [parsed_arg |-> Collapse(parsed_values, arg_data.action), exc |-> NoExc]

\* The loop over zip_longest(positional_args_data, consumed_values).
RECURSIVE PositionalProcess(_, _, _, _)
PositionalProcess(positional, consumed_values, k, parsed_args) ==
    IF k > Len(positional) THEN [parsed_args |-> parsed_args, exc |-> NoExc]
    ELSE LET has_values == k <= Len(consumed_values)
             r == PositionalParsedArg(positional[k], has_values,
                                      IF has_values THEN consumed_values[k] ELSE <<>>)
         IN  IF r.exc # NoExc
             THEN [parsed_args |-> parsed_args, exc |-> r.exc]
             ELSE PositionalProcess(positional, consumed_values, k + 1,
                                    Put(parsed_args, positional[k].id, r.parsed_arg))

_parse_and_consume_positional_args(cmd, arg_lists, parse_only_propagated) ==
    IF Len(arg_lists) = 0
    THEN [parsed_args |-> NoArgs, arg_lists |-> arg_lists, consumed_values |-> <<>>,
          exc |-> NoExc]
    ELSE LET positional == PositionalArgsData(cmd, parse_only_propagated)
             scan == PositionalScan(positional, arg_lists, 1, 1, 1, <<>>)
             proc == PositionalProcess(positional, scan.consumed_values, 1, NoArgs)
         IN  IF scan.exc # NoExc
             THEN [parsed_args |-> NoArgs, arg_lists |-> scan.arg_lists,
                   consumed_values |-> scan.consumed_values, exc |-> scan.exc]
             ELSE [parsed_args |-> proc.parsed_args, arg_lists |-> scan.arg_lists,
                   consumed_values |-> scan.consumed_values, exc |-> proc.exc]

(***************************************************************************)
(* ParsedCommand and its accessors.  _parsed_subcommand is <<>> for None   *)
(* and << node >> for a link to the next node of the invoked chain.        *)
(***************************************************************************)
ParsedCommand(name) ==
    [name |-> name, _parsed_subcommand |-> <<>>, _parsed_arguments |-> NoArgs]

\* Step 4 of parse_from: every node is linked to the node that follows it.
RECURSIVE NestParsedCommands(_)
NestParsedCommands(chain) ==
    IF Len(chain) = 1 THEN chain[1]
    ELSE [chain[1] EXCEPT !._parsed_subcommand = << NestParsedCommands(Tail(chain)) >>]

\* The nodes of a returned ParsedCommand, root first, following subcommand().
RECURSIVE Nodes(_)
Nodes(parsed_command) ==
    IF parsed_command._parsed_subcommand = <<>> THEN << parsed_command >>
    ELSE << parsed_command >> \o Nodes(parsed_command._parsed_subcommand[1])

Returned(value) == [value |-> value, exc |-> NoExc]

Raised(exc) == [value |-> PyNone, exc |-> exc]

get_any(parsed_command, id) ==
    IF id \in DOMAIN parsed_command._parsed_arguments
    THEN Returned(parsed_command._parsed_arguments[id].value)
    ELSE Returned(PyNone)

get_one(parsed_command, id) ==
    IF id \notin DOMAIN parsed_command._parsed_arguments THEN Returned(PyNone)
    ELSE LET parsed_arg == parsed_command._parsed_arguments[id] IN
         IF parsed_arg.action \notin {"set", "append"} THEN Raised(PyError("AssertionError"))
         ELSE IF parsed_arg.value.t = "tuple" THEN Raised(PyError("ClapyArgumentError"))
         ELSE Returned(parsed_arg.value)

get_many(parsed_command, id, force) ==
    IF id \notin DOMAIN parsed_command._parsed_arguments THEN Returned(PyNone)
    ELSE LET parsed_arg == parsed_command._parsed_arguments[id] IN
         IF parsed_arg.action \notin {"set", "append"} THEN Raised(PyError("AssertionError"))
         ELSE IF parsed_arg.value.t # "tuple"
         THEN IF force THEN Returned(PyTuple(<< parsed_arg.value >>))
              ELSE Raised(PyError("ClapyArgumentError"))
         ELSE Returned(parsed_arg.value)

get_flag(parsed_command, id) ==
    IF id \notin DOMAIN parsed_command._parsed_arguments THEN Returned(PyNone)
    ELSE LET parsed_arg == parsed_command._parsed_arguments[id] IN
         IF parsed_arg.action \notin {"store_true", "store_false"}
         THEN Raised(PyError("AssertionError"))
         ELSE Returned(parsed_arg.value)

get_count(parsed_command, id) ==
    IF id \notin DOMAIN parsed_command._parsed_arguments THEN Returned(PyNone)
    ELSE LET parsed_arg == parsed_command._parsed_arguments[id] IN
         IF parsed_arg.action # "count" THEN Raised(PyError("AssertionError"))
         ELSE Returned(parsed_arg.value)

(***************************************************************************)
(* Command.parse_from, step by step.  A frame holds the local variables of *)
(* one call together with what the call has done to the outside so far:    *)
(* help_printed (the commands whose help was handed to help_print_method), *)
(* printed (the error messages handed to print), and how the call ended    *)
(* (outcome "returned", "exit" with exit_code, or "raised" with exc).      *)
(* consumed_log keeps the consumed_values of every named pass run so far,  *)
(* the pass of the innermost command first, and segments keeps the         *)
(* argument lists as _discover_command_path returned them, before the      *)
(* passes delete what they consume; positional_log keeps the               *)
(* consumed_values of every positional pass run so far, the pass of the    *)
(* root first.                                                             *)
(* Positions in args are 1-based, so last_subcommand_pos starts at 0.      *)
(***************************************************************************)
InitFrame(root) ==
    [pc |-> "discover", i |-> 1, command_chain |-> << root >>, subarg_lists |-> <<>>,
     last_subcommand_pos |-> 0, parsed_command_chain |-> <<>>,
     segments |-> <<>>, consumed_log |-> <<>>, positional_log |-> <<>>, exc |-> NoExc,
     help_printed |-> <<>>, printed |-> <<>>, outcome |-> "running",
     exit_code |-> PyNone, parsed |-> <<>>]

\* Command._show_help: help_print(...) and then sys.exit(0).
_show_help(f, name) ==
    [f EXCEPT !.help_printed = Append(@, name), !.outcome = "exit",
              !.exit_code = PyInt(0), !.pc = "done"]

\* An exception raised inside the try block of parse_from: ClapyParsingError
\* reaches the except clause, any other exception leaves the call.
RaiseIn(f, e) ==
    IF e.type = "ClapyParsingError"
    THEN [f EXCEPT !.exc = e, !.pc = "except"]
    ELSE [f EXCEPT !.exc = e, !.outcome = "raised", !.pc = "done"]

\* DiscoverToken with the help options and the help of the root command, not
\* of the last command of the chain.
DiscoverToken_help_of_root(cmds, args, f) ==
    LET a == args[f.i]
        last == cmds[f.command_chain[Len(f.command_chain)]]
        first == cmds[f.command_chain[1]]
    IN  IF _is_named_arg(a)
        THEN IF a \in Range(first.help_options)
             THEN _show_help(f, first.name)
             ELSE [f EXCEPT !.i = @ + 1]
        ELSE IF a \in Range(last.subcommands)
        THEN [f EXCEPT !.subarg_lists =
                           Append(@, SubSeq(args, f.last_subcommand_pos + 1, f.i - 1)),
                       !.last_subcommand_pos = f.i,
                       !.command_chain = Append(@, a),
                       !.i = @ + 1]
        ELSE [f EXCEPT !.i = @ + 1]

\* _discover_command_path, one iteration of the loop over args.
DiscoverToken(cmds, args, f) ==
    LET a == args[f.i]
        last == cmds[f.command_chain[Len(f.command_chain)]]
    IN  IF _is_named_arg(a)
        THEN IF a \in Range(last.help_options)
             THEN _show_help(f, last.name)
             ELSE [f EXCEPT !.i = @ + 1]
        ELSE IF a \in Range(last.subcommands)
        THEN [f EXCEPT !.subarg_lists =
                           Append(@, SubSeq(args, f.last_subcommand_pos + 1, f.i - 1)),
                       !.last_subcommand_pos = f.i,
                       !.command_chain = Append(@, a),
                       !.i = @ + 1]
        ELSE [f EXCEPT !.i = @ + 1]

\* The first empty argument list, or 0.
RECURSIVE FirstEmpty(_, _)
FirstEmpty(lists, k) ==
    IF k > Len(lists) THEN 0
    ELSE IF Len(lists[k]) = 0 THEN k
    ELSE FirstEmpty(lists, k + 1)

\* DiscoverFinish with the mandatory subcommand check made before the check
\* for commands without arguments.
\* DiscoverFinish without the mandatory subcommand check.
DiscoverFinish_no_mandatory_check(cmds, args, f) ==
    LET lists == Append(f.subarg_lists,
                        SubSeq(args, f.last_subcommand_pos + 1, Len(args)))
        expanded == [k \in 1..Len(lists) |-> _expand_args(lists[k])]
        g == [f EXCEPT !.subarg_lists = expanded]
        e == FirstEmpty(expanded, 1)
    IN  IF e # 0
        THEN IF cmds[f.command_chain[e]].no_args_requests_help
             THEN _show_help(g, f.command_chain[e])
             ELSE RaiseIn(g, ClapyParsingError("No arguments supplied",
                                               << f.command_chain[e] >>))
        ELSE [g EXCEPT !.segments = expanded, !.pc = "named", !.i = 0]

DiscoverFinish_mandatory_first(cmds, args, f) ==
    LET lists == Append(f.subarg_lists,
                        SubSeq(args, f.last_subcommand_pos + 1, Len(args)))
        expanded == [k \in 1..Len(lists) |-> _expand_args(lists[k])]
        g == [f EXCEPT !.subarg_lists = expanded]
        e == FirstEmpty(expanded, 1)
        last == cmds[f.command_chain[Len(f.command_chain)]]
    IN  IF last.mandatory_subcommand /\ Len(last.subcommands) > 0
        THEN RaiseIn(g, ClapyParsingError("Mandatory subcommand expected",
                                          << last.name >> \o last.subcommands))
        ELSE IF e # 0
        THEN IF cmds[f.command_chain[e]].no_args_requests_help
             THEN _show_help(g, f.command_chain[e])
             ELSE RaiseIn(g, ClapyParsingError("No arguments supplied",
                                               << f.command_chain[e] >>))
        ELSE [g EXCEPT !.segments = expanded, !.pc = "named", !.i = 0]

\* _discover_command_path after the loop: the last list, the expansion, the
\* check for commands without arguments and the mandatory subcommand check.
DiscoverFinish(cmds, args, f) ==
    LET lists == Append(f.subarg_lists,
                        SubSeq(args, f.last_subcommand_pos + 1, Len(args)))
        expanded == [k \in 1..Len(lists) |-> _expand_args(lists[k])]
        g == [f EXCEPT !.subarg_lists = expanded]
        e == FirstEmpty(expanded, 1)
        last == cmds[f.command_chain[Len(f.command_chain)]]
    IN  IF e # 0
        THEN IF cmds[f.command_chain[e]].no_args_requests_help
             THEN _show_help(g, f.command_chain[e])
             ELSE RaiseIn(g, ClapyParsingError("No arguments supplied",
                                               << f.command_chain[e] >>))
        ELSE IF last.mandatory_subcommand /\ Len(last.subcommands) > 0
        THEN RaiseIn(g, ClapyParsingError("Mandatory subcommand expected",
                                          << last.name >> \o last.subcommands))
        ELSE [g EXCEPT !.segments = expanded, !.pc = "named", !.i = 0]

\* NamedPass with every command given all the argument lists, those before
\* its own included.
NamedPass_all_segments(cmds, f) ==
    LET n == Len(f.command_chain)
        cmd == cmds[f.command_chain[n - f.i]]
        r == _parse_and_consume_named_args(cmd, f.subarg_lists, f.i # 0)
        g == [f EXCEPT !.subarg_lists = r.arg_lists,
                       !.consumed_log = Append(@, r.consumed_values)]
    IN  IF r.exc # NoExc THEN RaiseIn(g, r.exc)
        ELSE [g EXCEPT !.parsed_command_chain =
                           << [ParsedCommand(cmd.name)
                                  EXCEPT !._parsed_arguments = r.parsed_args] >> \o @,
                       !.i = IF f.i + 1 = n THEN 0 ELSE f.i + 1,
                       !.pc = IF f.i + 1 = n THEN "positional" ELSE "named"]

\* Step 1 of parse_from, iteration i: the named pass of command_chain[::-1][i]
\* over the last i + 1 argument lists.
NamedPass(cmds, f) ==
    LET n == Len(f.command_chain)
        cmd == cmds[f.command_chain[n - f.i]]
        r == _parse_and_consume_named_args(cmd, SubSeq(f.subarg_lists, n - f.i, n),
                                           f.i # 0)
        g == [f EXCEPT !.subarg_lists = SubSeq(@, 1, n - f.i - 1) \o r.arg_lists,
                       !.consumed_log = Append(@, r.consumed_values)]
    IN  IF r.exc # NoExc THEN RaiseIn(g, r.exc)
        ELSE [g EXCEPT !.parsed_command_chain =
                           << [ParsedCommand(cmd.name)
                                  EXCEPT !._parsed_arguments = r.parsed_args] >> \o @,
                       !.i = IF f.i + 1 = n THEN 0 ELSE f.i + 1,
                       !.pc = IF f.i + 1 = n THEN "positional" ELSE "named"]

\* Step 2 of parse_from, iteration i: the positional pass of command_chain[i]
\* over the argument lists from i on.
PositionalPass(cmds, f) ==
    LET n == Len(f.command_chain)
        cmd == cmds[f.command_chain[f.i + 1]]
        r == _parse_and_consume_positional_args(cmd, SubSeq(f.subarg_lists, f.i + 1, n),
                                                f.i + 1 # n)
        g == [f EXCEPT !.subarg_lists = SubSeq(@, 1, f.i) \o r.arg_lists,
                       !.positional_log = Append(@, r.consumed_values)]
    IN  IF r.exc # NoExc THEN RaiseIn(g, r.exc)
        ELSE [g EXCEPT !.parsed_command_chain[f.i + 1]._parsed_arguments =
                           Update(@, r.parsed_args),
                       !.i = IF f.i + 1 = n THEN 0 ELSE f.i + 1,
                       !.pc = IF f.i + 1 = n THEN "extra" ELSE "positional"]

\* The first argument list that still holds tokens, or 0.
RECURSIVE FirstNonEmpty(_, _)
FirstNonEmpty(lists, k) ==
    IF k > Len(lists) THEN 0
    ELSE IF Len(lists[k]) > 0 THEN k
    ELSE FirstNonEmpty(lists, k + 1)

\* Step 3 of parse_from without its check.
CheckExtra_never_raises(f) == [f EXCEPT !.pc = "nest"]

\* Step 3 of parse_from: the first argument list with tokens left is reported.
CheckExtra(f) ==
    LET k == FirstNonEmpty(f.subarg_lists, 1)
    IN  IF k # 0
        THEN RaiseIn(f, ClapyParsingError("Unknown extra arguments", f.subarg_lists[k]))
        ELSE [f EXCEPT !.pc = "nest"]

\* Step 4 of parse_from and the return.
NestAndReturn(f) ==
    [f EXCEPT !.parsed = << NestParsedCommands(f.parsed_command_chain) >>,
              !.outcome = "returned", !.pc = "done"]

\* The except clause of parse_from: print(e.msg) and then sys.exit().
ExceptClause(f) ==
    [f EXCEPT !.printed = Append(@, f.exc.msg), !.outcome = "exit",
              !.exit_code = PyNone, !.pc = "done"]

\* One step of the call.
StepFrame(cmds, args, f) ==
    CASE f.pc = "discover" /\ f.i <= Len(args) -> DiscoverToken(cmds, args, f)
      [] f.pc = "discover" /\ f.i > Len(args) -> DiscoverFinish(cmds, args, f)
      [] f.pc = "named" -> NamedPass(cmds, f)
      [] f.pc = "positional" -> PositionalPass(cmds, f)
      [] f.pc = "extra" -> CheckExtra(f)
      [] f.pc = "nest" -> NestAndReturn(f)
      [] f.pc = "except" -> ExceptClause(f)

RECURSIVE RunFrame(_, _, _)
RunFrame(cmds, args, f) ==
    IF f.pc = "done" THEN f ELSE RunFrame(cmds, args, StepFrame(cmds, args, f))

\* Command.parse_from as a function of the definition tree and the tokens.
parse_from(cmds, root, args) == RunFrame(cmds, args, InitFrame(root))

(***************************************************************************)
(* The definition trees and token alphabets the calls are drawn from.      *)
(* Each is built with the builder methods, as the tests of the repository  *)
(* build theirs; extra is added to MaxLen for the trees whose shortest     *)
(* successful call is long.                                                *)
(***************************************************************************)
\* test_lists_args, reduced: a bounded-arity argument with allowed values.
lists_test ==
    [root |-> "lists-test",
     cmds |-> [c \in {"lists-test"} |->
        [Command("lists-test") EXCEPT !.arguments = <<
            WithValidValues([Arg("data-sources") EXCEPT !.long = "--sources",
                                                        !.nargs = NRange(1, 2)],
                            {PyStr("s1"), PyStr("s2")}),
            WithAction([Arg("debug") EXCEPT !.long = "--debug", !.short = "-d"],
                       "store_true") >>]],
     alphabet |-> {"--sources", "s1", "s2", "bad", "-d", "--"},
     extra |-> 0]

\* test_basic_cli, extended: every action with its default, on a root and a
\* subcommand, with propagated and not propagated arguments.
defaults_cli ==
    [root |-> "app",
     cmds |-> [c \in {"app", "run"} |->
        IF c = "app"
        THEN [Command("app") EXCEPT
                !.mandatory_subcommand = FALSE,
                !.subcommands = << "run" >>,
                !.arguments = <<
                    [WithAction([Arg("verbose") EXCEPT !.short = "-v"], "count")
                        EXCEPT !.propagate = TRUE],
                    [Arg("config") EXCEPT !.long = "--config", !.value_parser = "int",
                                          !.default = PyStr("5")],
                    [WithAction([Arg("tag") EXCEPT !.long = "--tag"], "append")
                        EXCEPT !.propagate = TRUE,
                               !.default = PyTuple(<< PyStr("t") >>)],
                    [WithAction([Arg("keep") EXCEPT !.long = "--keep"], "store_false")
                        EXCEPT !.propagate = TRUE],
                    [Arg("input") EXCEPT !.default = PyStr("in"), !.propagate = TRUE] >>]
        ELSE [Command("run") EXCEPT
                !._parent = "app",
                !.arguments = <<
                    WithAction([Arg("rm") EXCEPT !.long = "--rm"], "store_true"),
                    [Arg("option") EXCEPT !.default = PyInt(5), !.value_parser = "int"] >>]],
     alphabet |-> {"-v", "--config=7", "--tag=a", "run", "--rm", "8"},
     extra |-> 0]

\* test_complex_subcommands, reduced to the Append argument --tag with two
\* aliases, propagated to a subcommand.
append_cli ==
    [root |-> "my-app",
     cmds |-> [c \in {"my-app", "run"} |->
        IF c = "my-app"
        THEN [Command("my-app") EXCEPT
                !.mandatory_subcommand = FALSE,
                !.subcommands = << "run" >>,
                !.arguments = <<
                    [WithAction([Arg("tag") EXCEPT !.long = "--tag", !.short = "-t"],
                                "append")
                        EXCEPT !.propagate = TRUE, !.default = PyStr("none")] >>]
        ELSE [Command("run") EXCEPT
                !._parent = "my-app",
                !.arguments = <<
                    WithAction([Arg("rml") EXCEPT !.long = "--rm"], "store_true") >>]],
     alphabet |-> {"--tag=a", "--tag=b", "-t", "c", "run", "--rm"},
     extra |-> 0]

\* A Set argument with two aliases and an int converter.
set_cli ==
    [root |-> "app",
     cmds |-> [c \in {"app"} |->
        [Command("app") EXCEPT !.arguments = <<
            [Arg("num") EXCEPT !.long = "--num", !.short = "-n", !.value_parser = "int",
                               !.default = PyInt(0)],
            WithAction([Arg("debug") EXCEPT !.short = "-d"], "store_true") >>]],
     alphabet |-> {"-n", "--num=1", "--num=x", "2", "--num", "-d"},
     extra |-> 0]

\* Count arguments; -h is also a help option of the command.
count_cli ==
    [root |-> "app",
     cmds |-> [c \in {"app"} |->
        [Command("app") EXCEPT !.arguments = <<
            WithAction([Arg("verbose") EXCEPT !.long = "--verbose", !.short = "-v"],
                       "count"),
            WithAction([Arg("human") EXCEPT !.short = "-h"], "count") >>]],
     alphabet |-> {"-v", "-vv", "-vvv", "-h", "-hh", "x"},
     extra |-> 0]

\* A long alias given inline values, among them the name of a subcommand.
equals_cli ==
    [root |-> "app",
     cmds |-> [c \in {"app", "build"} |->
        IF c = "app"
        THEN [Command("app") EXCEPT
                !.mandatory_subcommand = FALSE,
                !.subcommands = << "build" >>,
                !.arguments = <<
                    [Arg("opt") EXCEPT !.long = "--opt", !.propagate = TRUE,
                                       !.default = PyStr("d")] >>]
        ELSE [Command("build") EXCEPT
                !._parent = "app",
                !.arguments = << [Arg("target") EXCEPT !.default = PyStr("all")] >>]],
     alphabet |-> {"--opt=v", "--opt=build", "--opt=-h", "--opt", "v", "build"},
     extra |-> 0]

\* test_complex_subcommands, reduced to the chain app -> build -> image.
build_image ==
    [root |-> "app",
     cmds |-> [c \in {"app", "build", "image"} |->
        CASE c = "app" ->
               [Command("app") EXCEPT
                  !.subcommands = << "build" >>,
                  !.arguments = <<
                      [WithAction([Arg("verbose") EXCEPT !.short = "-v"], "count")
                          EXCEPT !.propagate = TRUE] >>]
          [] c = "build" ->
               [Command("build") EXCEPT
                  !._parent = "app",
                  !.subcommands = << "image" >>,
                  !.arguments = <<
                      [WithAction([Arg("release") EXCEPT !.long = "--release"],
                                  "store_true")
                          EXCEPT !.propagate = TRUE] >>]
          [] c = "image" ->
               [Command("image") EXCEPT
                  !._parent = "build",
                  !.arguments = << Arg("name") >>]],
     alphabet |-> {"-v", "build", "--release", "image", "x"},
     extra |-> 1]

\* A command with a mandatory subcommand; no_args_requests_help is set on the
\* data of the command, TRUE being the default.
mandatory_cli(no_args_requests_help) ==
    [root |-> "app",
     cmds |-> [c \in {"app", "run"} |->
        IF c = "app"
        THEN [Command("app") EXCEPT
                !.no_args_requests_help = no_args_requests_help,
                !.subcommands = << "run" >>,
                !.arguments = <<
                    WithAction([Arg("debug") EXCEPT !.short = "-d"], "store_true") >>]
        ELSE [Command("run") EXCEPT
                !._parent = "app",
                !.no_args_requests_help = no_args_requests_help,
                !.arguments = << [Arg("command") EXCEPT !.nargs = NPlus] >>]],
     alphabet |-> {"run", "x", "-d", "-h"},
     extra |-> 0]

\* An int argument whose allowed values are ints, named and positional.
levels_cli ==
    [root |-> "app",
     cmds |-> [c \in {"app"} |->
        [Command("app") EXCEPT !.arguments = <<
            WithValidValues([Arg("level") EXCEPT !.long = "--level",
                                                 !.value_parser = "int",
                                                 !.default = PyInt(1)],
                            {PyInt(1), PyInt(2)}),
            WithValidValues([Arg("mode") EXCEPT !.default = PyStr("fast")],
                            {PyStr("fast"), PyStr("slow")}) >>]],
     alphabet |-> {"--level", "1", "3", "slow", "x", "--"},
     extra |-> 0]

\* A propagated argument of the parent that takes any number of values, and
\* an argument of one value of the subcommand.
taker_cli ==
    [root |-> "app",
     cmds |-> [c \in {"app", "run"} |->
        IF c = "app"
        THEN [Command("app") EXCEPT
                !.subcommands = << "run" >>,
                !.arguments = <<
                    [WithAction([Arg("opt") EXCEPT !.short = "-o"], "append") EXCEPT
                        !.nargs = NStar, !.propagate = TRUE] >>]
        ELSE [Command("run") EXCEPT
                !._parent = "app",
                !.arguments = << [Arg("tag") EXCEPT !.long = "--tag"] >>]],
     alphabet |-> {"-o", "run", "--tag", "a"},
     extra |-> 2]

\* Two positional arguments of one value each, and a flag.
cp_cli ==
    [root |-> "cp",
     cmds |-> [c \in {"cp"} |->
        [Command("cp") EXCEPT !.arguments = <<
            Arg("src"),
            Arg("dst"),
            WithAction([Arg("force") EXCEPT !.short = "-f"], "store_true") >>]],
     alphabet |-> {"a", "b", "-f"},
     extra |-> 0]

\* A command and its subcommand that give the same aliases to arguments of
\* their own, those of the command being propagated.
shared_cli ==
    [root |-> "app",
     cmds |-> [c \in {"app", "run"} |->
        IF c = "app"
        THEN [Command("app") EXCEPT
                !.mandatory_subcommand = FALSE,
                !.subcommands = << "run" >>,
                !.arguments = <<
                    [WithAction([Arg("verbose") EXCEPT !.short = "-v"], "count") EXCEPT
                        !.propagate = TRUE],
                    [Arg("name") EXCEPT !.long = "--name", !.default = PyStr("app"),
                                        !.propagate = TRUE] >>]
        ELSE [Command("run") EXCEPT
                !._parent = "app",
                !.arguments = <<
                    WithAction([Arg("volume") EXCEPT !.short = "-v"], "count"),
                    [Arg("name") EXCEPT !.long = "--name", !.default = PyStr("run")] >>]],
     alphabet |-> {"-v", "--name", "x", "run"},
     extra |-> 1]

\* A command whose own flag has the alias of a propagated counter of its
\* parent, and which requires a named and a positional argument of its own.
shadow_cli ==
    [root |-> "app",
     cmds |-> [c \in {"app", "build", "image"} |->
        CASE c = "app" ->
               [Command("app") EXCEPT
                  !.mandatory_subcommand = FALSE,
                  !.subcommands = << "build" >>,
                  !.arguments = <<
                      [WithAction([Arg("ex") EXCEPT !.short = "-x"], "count") EXCEPT
                          !.propagate = TRUE] >>]
          [] c = "build" ->
               [Command("build") EXCEPT
                  !._parent = "app",
                  !.mandatory_subcommand = FALSE,
                  !.subcommands = << "image" >>,
                  !.arguments = <<
                      WithAction([Arg("extra") EXCEPT !.short = "-x"], "store_true"),
                      [Arg("req") EXCEPT !.long = "--req"],
                      Arg("pos") >>]
          [] c = "image" ->
               [Command("image") EXCEPT
                  !._parent = "build",
                  !.arguments = <<
                      WithAction([Arg("it") EXCEPT !.short = "-i"], "store_true") >>]],
     alphabet |-> {"-x", "build", "image", "-i"},
     extra |-> 1]

Scenarios ==
    {lists_test, defaults_cli, append_cli, set_cli, count_cli, equals_cli, build_image,
     mandatory_cli(TRUE), mandatory_cli(FALSE), levels_cli, taker_cli, cp_cli, shared_cli,
     shadow_cli}

\* The token lists over an alphabet, up to a length.
TokenLists(alphabet, n) == UNION {[1..m -> alphabet] : m \in 0..n}

(***************************************************************************)
(* The state: the definition tree (cmds, root), the caller's token list    *)
(* (args) and the frame of the call of parse_from in progress.             *)
(***************************************************************************)
VARIABLES cmds, root, args, frame

vars == << cmds, root, args, frame >>

Init ==
    \E sc \in Scenarios :
        /\ cmds = sc.cmds
        /\ root = sc.root
        /\ args \in TokenLists(sc.alphabet, MaxLen + sc.extra)
        /\ frame = InitFrame(sc.root)

DiscoverTokenStep ==
    /\ frame.pc = "discover"
    /\ frame.i <= Len(args)
    /\ frame' = DiscoverToken(cmds, args, frame)
    /\ UNCHANGED << cmds, root, args >>

DiscoverFinishStep ==
    /\ frame.pc = "discover"
    /\ frame.i > Len(args)
    /\ frame' = DiscoverFinish(cmds, args, frame)
    /\ UNCHANGED << cmds, root, args >>

NamedPassStep ==
    /\ frame.pc = "named"
    /\ frame' = NamedPass(cmds, frame)
    /\ UNCHANGED << cmds, root, args >>

PositionalPassStep ==
    /\ frame.pc = "positional"
    /\ frame' = PositionalPass(cmds, frame)
    /\ UNCHANGED << cmds, root, args >>

CheckExtraStep ==
    /\ frame.pc = "extra"
    /\ frame' = CheckExtra(frame)
    /\ UNCHANGED << cmds, root, args >>

NestAndReturnStep ==
    /\ frame.pc = "nest"
    /\ frame' = NestAndReturn(frame)
    /\ UNCHANGED << cmds, root, args >>

ExceptClauseStep ==
    /\ frame.pc = "except"
    /\ frame' = ExceptClause(frame)
    /\ UNCHANGED << cmds, root, args >>

Next ==
    \/ DiscoverTokenStep
    \/ DiscoverFinishStep
    \/ NamedPassStep
    \/ PositionalPassStep
    \/ CheckExtraStep
    \/ NestAndReturnStep
    \/ ExceptClauseStep

Spec == Init /\ [][Next]_vars

(***************************************************************************)
(* Building a command: Command.argument and Command.arguments.  In this    *)
(* specification cmds holds the one command under construction, args is    *)
(* not used, and frame holds the arguments offered to the call in progress *)
(* or last made, how many of them the call has gone through, and the       *)
(* exception the call raised.                                              *)
(***************************************************************************)
MaxArgs == 2

\* Arg.nargs(n).
WithNargs(a, n) == [a EXCEPT !.nargs = n]

ArgActions == {"set", "append", "store_true", "store_false", "count"}

NargsForms ==
    {NInt(-1), NInt(0), NInt(1), NInt(2), NPlus, NStar, NRange(0, 2), NRange(1, 2)}

\* The arguments a caller can build: Arg("x").nargs(n).action(act),
\* Arg("x").action(act).nargs(n) and Arg("x").action(act).
BuiltArgs ==
    {WithAction(WithNargs(Arg("x"), n), act) : n \in NargsForms, act \in ArgActions}
    \cup {WithNargs(WithAction(Arg("x"), act), n) : n \in NargsForms, act \in ArgActions}

ClapyArgumentError == PyError("ClapyArgumentError")

\* The loop of Command.arguments, also the body of Command.argument: each
\* argument is validated and appended; validate raises out of the loop.
RECURSIVE Attach(_, _, _)
Attach(cmd, offered, k) ==
    IF k > Len(offered) THEN [cmd |-> cmd, done |-> Len(offered), exc |-> NoExc]
    ELSE IF ~ validate(offered[k])
    THEN [cmd |-> cmd, done |-> k - 1, exc |-> ClapyArgumentError]
    ELSE Attach([cmd EXCEPT !.arguments = Append(@, offered[k])], offered, k + 1)

BuildInit ==
    /\ root = "app"
    /\ cmds = [c \in {"app"} |-> Command("app")]
    /\ args = <<>>
    /\ frame = [pc |-> "build", offered |-> <<>>, done |-> 0, exc |-> NoExc]

\* Command.argument(arg).
ArgumentStep ==
    /\ frame.exc = NoExc
    /\ Len(cmds[root].arguments) < MaxArgs
    /\ \E arg \in BuiltArgs :
          LET r == Attach(cmds[root], << arg >>, 1)
          IN  /\ cmds' = [cmds EXCEPT ![root] = r.cmd]
              /\ frame' = [pc |-> "build", offered |-> << arg >>, done |-> r.done,
                           exc |-> r.exc]
    /\ UNCHANGED << root, args >>

\* Command.arguments(args), for a list of two arguments.
ArgumentsStep ==
    /\ frame.exc = NoExc
    /\ Len(cmds[root].arguments) + 2 <= MaxArgs
    /\ \E a1 \in BuiltArgs : \E a2 \in BuiltArgs :
          LET r == Attach(cmds[root], << a1, a2 >>, 1)
          IN  /\ cmds' = [cmds EXCEPT ![root] = r.cmd]
              /\ frame' = [pc |-> "build", offered |-> << a1, a2 >>, done |-> r.done,
                           exc |-> r.exc]
    /\ UNCHANGED << root, args >>

BuildNext ==
    \/ ArgumentStep
    \/ ArgumentsStep

BuildSpec == BuildInit /\ [][BuildNext]_vars

(***************************************************************************)
(* Notions the properties share.                                           *)
(***************************************************************************)
Done == frame.pc = "done"

Returns == Done /\ frame.outcome = "returned"

\* The call ended in the except clause with this kind of parsing error.
FailsWith(msg) ==
    Done /\ frame.exc.type = "ClapyParsingError" /\ frame.exc.msg = msg

\* Discovery handed a command chain and its expanded segments to the passes.
DiscoveryPassed == frame.segments # <<>>

Chain == frame.command_chain

Segments == frame.segments

\* The nodes of the returned result, root first.
ResultNodes == Nodes(frame.parsed[1])

Aliases(a) == {a.long, a.short} \ {NoAlias}

\* The command at position j of the chain parses the argument a at all.
ParsedFor(j, a) == j = Len(Chain) \/ a.propagate

\* No token of the expanded token list is an alias of the named argument a.
NotSuppliedNamed(a) ==
    \A k \in 1..Len(_expand_args(args)) : _expand_args(args)[k] \notin Aliases(a)

\* No positional token is left to the positional definitions of command j.
NotSuppliedPositional(j) ==
    \A s \in j..Len(Segments) :
        \A k \in 1..Len(Segments[s]) : _is_named_arg(Segments[s][k])

NotSupplied(j, a) ==
    IF is_named(a) THEN NotSuppliedNamed(a) ELSE NotSuppliedPositional(j)

(***************************************************************************)
(* C1.  Whenever parse_from hits a parsing failure, the ClapyParsingError  *)
(* is raised to the caller of parse_from; the process is not terminated.   *)
(***************************************************************************)
C1_ParsingErrorRaisedToCaller ==
    Done /\ frame.exc.type = "ClapyParsingError"
        => frame.outcome = "raised" /\ frame.printed = <<>>

(***************************************************************************)
(* C2.  After a successful parse_from, an argument that was not supplied   *)
(* holds its default: as first stated, for every argument of every command *)
(* of the chain, get_one gives the configured default of a Set/Append      *)
(* argument, get_flag gives False for StoreTrue and True for StoreFalse,   *)
(* and get_count gives 0.                                                  *)
(***************************************************************************)
UnsuppliedDefault(node, a, one) ==
    /\ a.action \in {"set", "append"} /\ a.default # PyNone => one
    /\ a.action = "store_true" => get_flag(node, a.id) = Returned(PyBool(FALSE))
    /\ a.action = "store_false" => get_flag(node, a.id) = Returned(PyBool(TRUE))
    /\ a.action = "count" => get_count(node, a.id) = Returned(PyInt(0))

C2_EveryArgumentOfTheChain ==
    Returns =>
        \A j \in 1..Len(Chain) :
            \A k \in 1..Len(cmds[Chain[j]].arguments) :
                LET a == cmds[Chain[j]].arguments[k]
                    node == ResultNodes[j]
                IN  NotSupplied(j, a) =>
                        UnsuppliedDefault(node, a, get_one(node, a.id) = Returned(a.default))

\* C2 as amended: the arguments parsed for their command (all those of the
\* terminal command, the propagated ones of the other commands) hold the
\* default itself, unconverted, under get_any; get_one returns it too unless
\* the default is a tuple, which get_one refuses; the arguments that are not
\* parsed for their command are absent from the result.
C2_DefaultsOfParsedArguments ==
    Returns =>
        \A j \in 1..Len(Chain) :
            \A k \in 1..Len(cmds[Chain[j]].arguments) :
                LET a == cmds[Chain[j]].arguments[k]
                    node == ResultNodes[j]
                IN  /\ ParsedFor(j, a) /\ NotSupplied(j, a) =>
                        UnsuppliedDefault(node, a,
                            /\ get_any(node, a.id) = Returned(a.default)
                            /\ get_one(node, a.id) =
                                   IF a.default.t = "tuple"
                                   THEN Raised(PyError("ClapyArgumentError"))
                                   ELSE Returned(a.default))
                    /\ ~ ParsedFor(j, a) => get_any(node, a.id) = Returned(PyNone)

\* A returned result in which a string default of an int argument, a flag and
\* a count were all left to their defaults.
C2_Witness ==
    /\ Returns
    /\ \E j \in 1..Len(Chain) :
        /\ \E k \in 1..Len(cmds[Chain[j]].arguments) :
            LET a == cmds[Chain[j]].arguments[k]
            IN  /\ ParsedFor(j, a) /\ NotSupplied(j, a)
                /\ a.action = "set" /\ a.value_parser = "int" /\ a.default.t = "str"
        /\ \E k \in 1..Len(cmds[Chain[j]].arguments) :
            LET a == cmds[Chain[j]].arguments[k]
            IN  ParsedFor(j, a) /\ NotSupplied(j, a) /\ a.action = "store_false"
        /\ \E k \in 1..Len(cmds[Chain[j]].arguments) :
            LET a == cmds[Chain[j]].arguments[k]
            IN  ParsedFor(j, a) /\ NotSupplied(j, a) /\ a.action = "count"

(***************************************************************************)
(* C3.  A named Set/Append argument of bounded arity (min, max) whose      *)
(* alias is followed by more than max consecutive non-named tokens takes   *)
(* exactly the first max of them for that occurrence; the tokens beyond    *)
(* stay in the segment, and when no positional definition takes them the   *)
(* parse fails with the error for unknown extra arguments.                 *)
(***************************************************************************)
\* The named arguments command j of the chain looks for, and their aliases.
Lookup(j) == NamedArgsData(cmds[Chain[j]], j # Len(Chain))

LookupAliases(j) == UNION {Aliases(Lookup(j)[k]) : k \in 1..Len(Lookup(j))}

\* An occurrence of alias in segment s is consumed by command j: the deepest
\* command that scans the segment and looks for the alias.
Owns(j, s, alias) ==
    /\ j <= s
    /\ alias \in LookupAliases(j)
    /\ \A i \in (j + 1)..s : alias \notin LookupAliases(i)

\* How many of the first p tokens of seg are the token t.
Occurrences(seg, t, p) == Cardinality({q \in 1..p : seg[q] = t})

RECURSIVE OccurrencesBefore(_, _, _)
OccurrencesBefore(j, s, alias) ==
    IF s <= j THEN 0
    ELSE OccurrencesBefore(j, s - 1, alias)
         + (IF Owns(j, s - 1, alias)
            THEN Occurrences(Segments[s - 1], alias, Len(Segments[s - 1]))
            ELSE 0)

\* The rank of the occurrence at position p of segment s among those that
\* command j consumes for the alias, in the order of the scan.
OccurrenceRank(j, s, p) ==
    OccurrencesBefore(j, s, Segments[s][p]) + Occurrences(Segments[s], Segments[s][p], p)

\* The groups the named pass of command j recorded for an alias.
GroupsOf(j, alias) ==
    IF Len(frame.consumed_log) < Len(Chain) - j + 1 THEN <<>>
    ELSE LET log == frame.consumed_log[Len(Chain) - j + 1]
             hit == {q \in 1..Len(log) : log[q].alias = alias}
         IN  IF hit = {} THEN <<>> ELSE log[CHOOSE q \in hit : TRUE].groups

BoundedNamed(a) ==
    is_named(a) /\ a.action \in {"set", "append"} /\ a.nargs.kind \in {"int", "range"}

\* The largest number of values of a bounded arity: n of nargs(n), the stop
\* of nargs(range(start, stop)).
ArityMax(a) == a.nargs.stop

IsValueToken(t) == ~ _is_named_arg(t) /\ t # NAMED_ARGUMENTS_STOP_TOKEN

NoPositionalDefinitions ==
    \A j \in 1..Len(Chain) : PositionalArgsData(cmds[Chain[j]], j # Len(Chain)) = <<>>

\* No command above command j looks for a named argument that takes values.
NoValueTakerAbove(j) ==
    \A i \in 1..(j - 1) :
        \A k \in 1..Len(Lookup(i)) : Lookup(i)[k].action \notin {"set", "append"}

\* Position p of segment s holds an alias of the argument a of command j,
\* and the max + 1 tokens after it exist and are all non-named.
MoreThanMaxNonNamed(j, a, s, p) ==
    /\ BoundedNamed(a)
    /\ Segments[s][p] \in Aliases(a)
    /\ Owns(j, s, Segments[s][p])
    /\ p + ArityMax(a) + 1 <= Len(Segments[s])
    /\ \A q \in (p + 1)..(p + ArityMax(a) + 1) : ~ _is_named_arg(Segments[s][q])

MoreThanMaxValues(j, a, s, p) ==
    /\ MoreThanMaxNonNamed(j, a, s, p)
    /\ \A q \in (p + 1)..(p + ArityMax(a) + 1) : IsValueToken(Segments[s][q])

FirstMax(a, s, p) == SubSeq(Segments[s], p + 1, p + ArityMax(a))

C3_NonNamedTokensAndUnknownError ==
    Done /\ DiscoveryPassed =>
        \A j \in 1..Len(Chain) : \A k \in 1..Len(Lookup(j)) :
            \A s \in j..Len(Chain) : \A p \in 1..Len(Segments[s]) :
                LET a == Lookup(j)[k]
                    groups == GroupsOf(j, Segments[s][p])
                    m == OccurrenceRank(j, s, p)
                IN  MoreThanMaxNonNamed(j, a, s, p) =>
                        /\ Len(groups) >= m
                        /\ groups[m] = FirstMax(a, s, p)
                        /\ NoPositionalDefinitions => FailsWith("Unknown extra arguments")

\* C3 as amended: the tokens after the alias are value tokens (neither named
\* nor the "--" marker); the occurrence takes exactly the first max of them,
\* unless the call failed before the scan reached the occurrence; the next
\* token stays in the segment, and when neither a positional definition nor a
\* named argument of a command higher in the chain takes it, the call returns
\* no result: it ends with the error for unknown extra arguments unless
\* another step ended it first.
C3_TakesFirstMaxValues ==
    Done /\ DiscoveryPassed =>
        \A j \in 1..Len(Chain) : \A k \in 1..Len(Lookup(j)) :
            \A s \in j..Len(Chain) : \A p \in 1..Len(Segments[s]) :
                LET a == Lookup(j)[k]
                    groups == GroupsOf(j, Segments[s][p])
                    m == OccurrenceRank(j, s, p)
                IN  MoreThanMaxValues(j, a, s, p) =>
                        /\ IF Len(groups) >= m
                           THEN groups[m] = FirstMax(a, s, p)
                           ELSE ~ Returns
                        /\ NoPositionalDefinitions /\ NoValueTakerAbove(j) =>
                              /\ ~ Returns
                              /\ Len(groups) >= m =>
                                    Segments[s][p + ArityMax(a) + 1]
                                        \in Range(frame.subarg_lists[s])
                              /\ frame.exc.msg = "Unknown extra arguments" =>
                                    FirstNonEmpty(frame.subarg_lists, 1) # 0

\* An alias of range(1, 2) followed by three allowed values: two are taken,
\* the third is reported as an unknown extra argument.
C3_Witness ==
    /\ FailsWith("Unknown extra arguments")
    /\ DiscoveryPassed
    /\ \E j \in 1..Len(Chain) : \E k \in 1..Len(Lookup(j)) :
        \E s \in j..Len(Chain) : \E p \in 1..Len(Segments[s]) :
            LET a == Lookup(j)[k]
            IN  /\ MoreThanMaxValues(j, a, s, p)
                /\ a.nargs.kind = "range" /\ a.nargs.start < a.nargs.stop
                /\ GroupsOf(j, Segments[s][p]) = << FirstMax(a, s, p) >>
                /\ frame.exc.names = << Segments[s][p + ArityMax(a) + 1] >>

(***************************************************************************)
(* C4.  A supplied value that, after conversion, is not in the allowed     *)
(* set of its argument makes the call fail with a parsing error.           *)
(***************************************************************************)
\* The definition that the named pass of command j finds under an alias.
NamedArgOf(j, alias) == Lookup(j)[NamedArgsMapGet(Lookup(j), alias, Len(Lookup(j)))]

\* Some value of the groups converts to a value outside the allowed set of a.
DisallowedValue(a, groups) ==
    /\ a.action \in {"set", "append"}
    /\ a.has_valid_values
    /\ \E k \in 1..Len(Concat(groups)) :
          /\ ~ RaisesValueError(a.value_parser, Concat(groups)[k])
          /\ value_parser_apply(a.value_parser, Concat(groups)[k]) \notin a.valid_values

\* C4, for the values the named passes consumed: when one of them is outside
\* the allowed set of its argument, the call ends with a ClapyParsingError.
C4_DisallowedValueIsParsingError ==
    Done =>
        \A l \in 1..Len(frame.consumed_log) : \A q \in 1..Len(frame.consumed_log[l]) :
            LET entry == frame.consumed_log[l][q]
            IN  DisallowedValue(NamedArgOf(Len(Chain) - l + 1, entry.alias), entry.groups)
                    => frame.exc.type = "ClapyParsingError"

(***************************************************************************)
(* C5 and C6.  An argument supplied more than once.                        *)
(***************************************************************************)
\* The places, segment and position, where the segments scanned for command j
\* hold an alias of its argument a.
SuppliedAt(j, a) ==
    UNION {{<< s, p >> : p \in {q \in 1..Len(Segments[s]) :
                                   /\ Segments[s][q] \in Aliases(a)
                                   /\ Owns(j, s, Segments[s][q])}}
           : s \in j..Len(Chain)}

SuppliedTwice(j, a) == Cardinality(SuppliedAt(j, a)) >= 2

\* C5: an Append argument supplied more than once, through any of its
\* aliases, is not refused as a repeated argument.
C5_AppendAccumulatesAllOccurrences ==
    Done /\ DiscoveryPassed =>
        \A j \in 1..Len(Chain) : \A k \in 1..Len(Lookup(j)) :
            LET a == Lookup(j)[k]
            IN  a.action = "append" /\ SuppliedTwice(j, a) =>
                    ~ (FailsWith("Repeated argument") /\ frame.exc.names[1] \in Aliases(a))

\* C6 as stated: a Set argument supplied more than once always ends the call
\* with the error for a repeated argument.
C6_RepeatedSetAlwaysRepeatedError ==
    Done /\ DiscoveryPassed =>
        \A j \in 1..Len(Chain) : \A k \in 1..Len(Lookup(j)) :
            LET a == Lookup(j)[k]
            IN  a.action = "set" /\ SuppliedTwice(j, a) => FailsWith("Repeated argument")

\* The named pass of command j has run.
PassReached(j) == Len(frame.consumed_log) >= Len(Chain) - j + 1

\* C6 as amended: a Set argument supplied more than once never reaches a
\* result: the named pass of its command is never completed, and when that
\* pass is reached it ends the call with the error for a repeated argument
\* or with the failure it detects first: insufficient values, a value that
\* does not convert, or the check of the allowed values.
C6_RepeatedSetNeverParsed ==
    Done /\ DiscoveryPassed =>
        \A j \in 1..Len(Chain) : \A k \in 1..Len(Lookup(j)) :
            LET a == Lookup(j)[k]
            IN  a.action = "set" /\ SuppliedTwice(j, a) =>
                    /\ ~ Returns
                    /\ frame.parsed = <<>>
                    /\ Len(frame.parsed_command_chain) <= Len(Chain) - j
                    /\ PassReached(j) =>
                          \/ /\ frame.exc.type = "ClapyParsingError"
                             /\ frame.exc.msg \in {"Repeated argument", "Missing argument values",
                                                   "Wrong value type", "Invalid value"}
                          \/ frame.exc.type = "TypeError"

\* A Set argument given once through each of its two aliases is refused as
\* repeated.
C6_Witness ==
    /\ DiscoveryPassed
    /\ \E j \in 1..Len(Chain) : \E k \in 1..Len(Lookup(j)) :
        LET a == Lookup(j)[k]
        IN  /\ a.action = "set"
            /\ SuppliedTwice(j, a)
            /\ \E x \in SuppliedAt(j, a) : \E y \in SuppliedAt(j, a) :
                   Segments[x[1]][x[2]] # Segments[y[1]][y[2]]
            /\ FailsWith("Repeated argument")
            /\ frame.exc.names[1] \in Aliases(a)

(***************************************************************************)
(* C7 and C8.  A token and its expansion written out by the caller.        *)
(***************************************************************************)
\* The frame when the loop of _discover_command_path reaches position p.
RECURSIVE DiscoverUpTo(_, _, _, _)
DiscoverUpTo(tree, tokens, f, p) ==
    IF f.pc = "discover" /\ f.i < p
    THEN DiscoverUpTo(tree, tokens, DiscoverToken(tree, tokens, f), p)
    ELSE f

\* The command that is the last of the chain when the loop reaches position p.
CurrentAt(p) ==
    LET f == DiscoverUpTo(cmds, args, InitFrame(root), p)
    IN  cmds[f.command_chain[Len(f.command_chain)]]

Replace(tokens, p, ts) == SubSeq(tokens, 1, p - 1) \o ts \o SubSeq(tokens, p + 1, Len(tokens))

\* What the caller of parse_from and the user of the process observe.
Outcome(f) ==
    [outcome |-> f.outcome, exit_code |-> f.exit_code, exc |-> f.exc,
     help_printed |-> f.help_printed, printed |-> f.printed, parsed |-> f.parsed]

IsCountAlias(alias) ==
    \E c \in DOMAIN cmds : \E k \in 1..Len(cmds[c].arguments) :
        cmds[c].arguments[k].action = "count" /\ cmds[c].arguments[k].short = alias

IsLongAlias(alias) ==
    \E c \in DOMAIN cmds : \E k \in 1..Len(cmds[c].arguments) :
        cmds[c].arguments[k].long = alias

\* The token at position p is "-xx...x" for the short alias "-x" of a Count argument.
RepeatedShort(p) ==
    /\ _is_short_expandable_arg(args[p])
    /\ IsCountAlias("-" \o Char(args[p], 2))

\* args with the token at p replaced by as many "-x" tokens as it has letters.
WrittenSeparately(p) ==
    Replace(args, p, [k \in 1..(Len(args[p]) - 1) |-> "-" \o Char(args[p], 2)])

\* C7 as stated: the call on the list with "-xx...x" and the call on the list
\* with the separate "-x" tokens have the same outcome.
C7_RepeatedShortSameAsSeparate ==
    Done =>
        \A p \in 1..Len(args) :
            RepeatedShort(p) =>
                Outcome(frame) = Outcome(parse_from(cmds, root, WrittenSeparately(p)))

\* C7 as amended: the same, provided that neither "-xx...x" nor "-x" is a
\* help option of the command that is current where the token stands, and
\* that x is not "=".
C7_SameUnlessHelpOption ==
    Done =>
        \A p \in 1..Len(args) :
            /\ RepeatedShort(p)
            /\ Char(args[p], 2) # "="
            /\ args[p] \notin Range(CurrentAt(p).help_options)
            /\ ("-" \o Char(args[p], 2)) \notin Range(CurrentAt(p).help_options)
            => Outcome(frame) = Outcome(parse_from(cmds, root, WrittenSeparately(p)))

\* "-vvv" alone is counted as three, as "-v", "-v", "-v" is.
C7_Witness ==
    /\ Returns
    /\ \E p \in 1..Len(args) :
          /\ RepeatedShort(p)
          /\ Len(args[p]) = 4
          /\ args[p] \notin Range(CurrentAt(p).help_options)
          /\ ("-" \o Char(args[p], 2)) \notin Range(CurrentAt(p).help_options)
          /\ \E id \in DOMAIN ResultNodes[1]._parsed_arguments :
                get_count(ResultNodes[1], id) = Returned(PyInt(3))
          /\ Outcome(parse_from(cmds, root, WrittenSeparately(p))).parsed = frame.parsed

OptOf(p) == SubSeq(args[p], 1, FindEq(args[p], 1) - 1)

ValueOf(p) == SubSeq(args[p], FindEq(args[p], 1) + 1, Len(args[p]))

\* The token at position p is "--opt=v" for a long alias "--opt".
EqualsForm(p) ==
    /\ _is_named_arg(args[p])
    /\ FindEq(args[p], 1) > 0
    /\ IsLongAlias(OptOf(p))

\* args with the token at p replaced by the two tokens "--opt", "v".
WrittenAsTwo(p) == Replace(args, p, << OptOf(p), ValueOf(p) >>)

\* C8 as stated: the call on the list with "--opt=v" and the call on the list
\* with "--opt", "v" have the same outcome.
C8_EqualsFormSameAsTwoTokens ==
    Done =>
        \A p \in 1..Len(args) :
            EqualsForm(p) =>
                Outcome(frame) = Outcome(parse_from(cmds, root, WrittenAsTwo(p)))

\* C8 as amended: the same, provided that v is not a token the expansion
\* rewrites, v is not the name of a subcommand of the command that is current
\* where the token stands, and none of "--opt=v", "--opt" and v is a help
\* option of that command.
C8_SameUnlessValueIsRead ==
    Done =>
        \A p \in 1..Len(args) :
            /\ EqualsForm(p)
            /\ ExpandOne(ValueOf(p)) = << ValueOf(p) >>
            /\ ValueOf(p) \notin Range(CurrentAt(p).subcommands)
            /\ {args[p], OptOf(p), ValueOf(p)} \cap Range(CurrentAt(p).help_options) = {}
            => Outcome(frame) = Outcome(parse_from(cmds, root, WrittenAsTwo(p)))

\* "--opt=v" is parsed to the value v, as "--opt", "v" is.
C8_Witness ==
    /\ Returns
    /\ \E p \in 1..Len(args) :
          /\ EqualsForm(p)
          /\ ExpandOne(ValueOf(p)) = << ValueOf(p) >>
          /\ ValueOf(p) \notin Range(CurrentAt(p).subcommands)
          /\ {args[p], OptOf(p), ValueOf(p)} \cap Range(CurrentAt(p).help_options) = {}
          /\ \E id \in DOMAIN ResultNodes[1]._parsed_arguments :
                get_one(ResultNodes[1], id) = Returned(PyStr(ValueOf(p)))
          /\ Outcome(parse_from(cmds, root, WrittenAsTwo(p))).parsed = frame.parsed

(***************************************************************************)
(* C9.  app -> build -> image: the call on "build", "--release", "image",  *)
(* "x" returns the chain, with release TRUE on the node of build.          *)
(***************************************************************************)
C9_BuildReleaseImageSucceeds ==
    /\ Done
    /\ cmds = build_image.cmds
    /\ args = << "build", "--release", "image", "x" >>
    => /\ Returns
       /\ frame.parsed # <<>>
       /\ [k \in 1..Len(ResultNodes) |-> ResultNodes[k].name] = << "app", "build", "image" >>
       /\ get_flag(ResultNodes[2], "release") = Returned(PyBool(TRUE))

(***************************************************************************)
(* C10.  The call on the empty token list, on a command with subcommands   *)
(* and mandatory_subcommand.                                               *)
(***************************************************************************)
EmptyInputOnMandatory ==
    /\ Done
    /\ args = <<>>
    /\ cmds[root].mandatory_subcommand
    /\ Len(cmds[root].subcommands) > 0

HelpShownFor(name) ==
    /\ frame.help_printed = << name >>
    /\ frame.outcome = "exit"
    /\ frame.exit_code = PyInt(0)
    /\ frame.exc = NoExc

\* C10 as stated: help when no_args_requests_help is set, otherwise the
\* parsing error that names the subcommands to choose from.
C10_EmptyInputNamesSubcommands ==
    EmptyInputOnMandatory =>
        IF cmds[root].no_args_requests_help
        THEN HelpShownFor(root)
        ELSE /\ FailsWith("Mandatory subcommand expected")
             /\ frame.exc.names = << root >> \o cmds[root].subcommands

\* C10 as amended: help when no_args_requests_help is set, otherwise the
\* parsing error "No arguments supplied", which names the command and not
\* its subcommands.
C10_EmptyInputNamesCommand ==
    EmptyInputOnMandatory =>
        IF cmds[root].no_args_requests_help
        THEN HelpShownFor(root)
        ELSE /\ FailsWith("No arguments supplied")
             /\ frame.exc.names = << root >>

C10_Witness ==
    /\ EmptyInputOnMandatory
    /\ ~ cmds[root].no_args_requests_help
    /\ FailsWith("No arguments supplied")

(***************************************************************************)
(* C11.  The first help option met by the discovery scan.                  *)
(***************************************************************************)
\* The token at position p is a named token and a help option of the command
\* that is last in the chain when the scan reaches it.
HelpTokenAt(p) ==
    /\ _is_named_arg(args[p])
    /\ args[p] \in Range(CurrentAt(p).help_options)

FirstHelpTokenAt(p) ==
    /\ p \in 1..Len(args)
    /\ HelpTokenAt(p)
    /\ \A q \in 1..(p - 1) : ~ HelpTokenAt(q)

\* C11: when the token list holds a help option of the command current at
\* its position, the scan stops at the first such token: the help of that
\* command is printed exactly once, the call ends with exit status 0 and no
\* ParsedCommand, nothing is expanded, consumed or validated, and the outcome
\* is that of the call on the tokens up to the help option alone.
C11_FirstHelpTokenEndsTheCall ==
    \A p \in 1..Len(args) :
        FirstHelpTokenAt(p) =>
            /\ frame.pc \in {"discover", "done"}
            /\ frame.segments = <<>>
            /\ frame.consumed_log = <<>>
            /\ frame.parsed_command_chain = <<>>
            /\ frame.printed = <<>>
            /\ frame.pc = "discover" => frame.i <= p /\ frame.help_printed = <<>>
            /\ Done =>
                  /\ frame.help_printed = << CurrentAt(p).name >>
                  /\ frame.outcome = "exit"
                  /\ frame.exit_code = PyInt(0)
                  /\ frame.exc = NoExc
                  /\ frame.parsed = <<>>
                  /\ frame.i = p
                  /\ Outcome(frame) = Outcome(parse_from(cmds, root, SubSeq(args, 1, p)))

\* The help option of a subcommand, followed by more tokens.
C11_Witness ==
    /\ Done
    /\ \E p \in 1..Len(args) :
          /\ FirstHelpTokenAt(p)
          /\ p < Len(args)
          /\ CurrentAt(p).name # root
          /\ frame.help_printed = << CurrentAt(p).name >>

(***************************************************************************)
(* C12.  get_one, get_many and the shape of the stored value.              *)
(***************************************************************************)
\* The values consumed for argument a of command j in a call that returned:
\* << values >> when the argument was supplied, << >> when it was not.
ConsumedFor(j, a) ==
    IF is_named(a)
    THEN LET log == frame.consumed_log[Len(Chain) - j + 1]
             hit == {q \in 1..Len(log) : NamedArgOf(j, log[q].alias).id = a.id}
         IN  IF hit = {} THEN <<>>
             ELSE << Concat(log[CHOOSE q \in hit : TRUE].groups) >>
    ELSE LET positional == PositionalArgsData(cmds[Chain[j]], j # Len(Chain))
             k == CHOOSE i \in 1..Len(positional) : positional[i].id = a.id
         IN  IF k <= Len(frame.positional_log[j])
             THEN << frame.positional_log[j][k] >>
             ELSE <<>>

\* What C12 says of get_one and get_many on a stored value v.
AccessorsFollowShape(node, id, v) ==
    /\ get_one(node, id) =
          IF v.t = "tuple" THEN Raised(PyError("ClapyArgumentError")) ELSE Returned(v)
    /\ get_many(node, id, FALSE) =
          IF v.t = "tuple" THEN Returned(v) ELSE Raised(PyError("ClapyArgumentError"))
    /\ get_many(node, id, TRUE) =
          IF v.t = "tuple" THEN Returned(v) ELSE Returned(PyTuple(<< v >>))
    /\ (get_one(node, id).exc = NoExc) # (get_many(node, id, FALSE).exc = NoExc)

\* C12 as stated: the accessors follow the shape of the stored value, and the
\* value is a scalar exactly when one value in total was consumed for the
\* argument.
C12_ScalarIffOneValueConsumed ==
    Returns =>
        \A j \in 1..Len(ResultNodes) : \A k \in 1..Len(cmds[Chain[j]].arguments) :
            LET a == cmds[Chain[j]].arguments[k]
                node == ResultNodes[j]
            IN  a.action \in {"set", "append"} /\ a.id \in DOMAIN node._parsed_arguments =>
                    LET v == node._parsed_arguments[a.id].value
                        consumed == IF ConsumedFor(j, a) = <<>> THEN <<>>
                                    ELSE ConsumedFor(j, a)[1]
                    IN  /\ AccessorsFollowShape(node, a.id, v)
                        /\ v.t # "tuple" <=> Len(consumed) = 1

\* C12 as amended: the accessors follow the shape of the stored value; for a
\* supplied argument the value is a scalar exactly when one value in total
\* was consumed for it, and for an argument that was not supplied the stored
\* value is the configured default, scalar or tuple as configured.
C12_ScalarIffOneValueSupplied ==
    Returns =>
        \A j \in 1..Len(ResultNodes) : \A k \in 1..Len(cmds[Chain[j]].arguments) :
            LET a == cmds[Chain[j]].arguments[k]
                node == ResultNodes[j]
            IN  a.action \in {"set", "append"} /\ a.id \in DOMAIN node._parsed_arguments =>
                    LET v == node._parsed_arguments[a.id].value
                    IN  /\ AccessorsFollowShape(node, a.id, v)
                        /\ IF ConsumedFor(j, a) = <<>>
                           THEN v = a.default
                           ELSE v.t # "tuple" <=> Len(ConsumedFor(j, a)[1]) = 1

\* An argument supplied with two values: get_many returns them, get_one fails.
C12_Witness ==
    /\ Returns
    /\ \E j \in 1..Len(ResultNodes) : \E k \in 1..Len(cmds[Chain[j]].arguments) :
        LET a == cmds[Chain[j]].arguments[k]
            node == ResultNodes[j]
        IN  /\ a.action \in {"set", "append"}
            /\ a.id \in DOMAIN node._parsed_arguments
            /\ ConsumedFor(j, a) # <<>>
            /\ Len(ConsumedFor(j, a)[1]) = 2
            /\ get_one(node, a.id).exc.type = "ClapyArgumentError"
            /\ get_many(node, a.id, FALSE).value.t = "tuple"
            /\ Len(get_many(node, a.id, FALSE).value.items) = 2

(***************************************************************************)
(* C13.  Positional tokens go to the positional definitions in declaration *)
(* order, no token skipped.                                                *)
(***************************************************************************)
\* The positional definitions of the terminal command.
TerminalPositionals == PositionalArgsData(cmds[Chain[Len(Chain)]], FALSE)

\* The terminal command has k >= 2 positional definitions, all of arity 1,
\* its segment holds exactly k tokens, all positional, and no other command
\* of the chain has a positional definition to fill.
OneTokenPerPositional ==
    /\ DiscoveryPassed
    /\ Len(TerminalPositionals) >= 2
    /\ \A k \in 1..Len(TerminalPositionals) : TerminalPositionals[k].nargs = NInt(1)
    /\ Len(Segments[Len(Chain)]) = Len(TerminalPositionals)
    /\ \A q \in 1..Len(Segments[Len(Chain)]) : IsValueToken(Segments[Len(Chain)][q])
    /\ \A j \in 1..(Len(Chain) - 1) : PositionalArgsData(cmds[Chain[j]], TRUE) = <<>>

\* C13: then the call returns and the j-th declared positional holds the j-th
\* token of the segment.
C13_PositionalsInDeclarationOrder ==
    Done /\ OneTokenPerPositional =>
        /\ Returns
        /\ frame.parsed # <<>>
        /\ \A k \in 1..Len(TerminalPositionals) :
              get_any(ResultNodes[Len(Chain)], TerminalPositionals[k].id) =
                  Returned(value_parser_apply(TerminalPositionals[k].value_parser,
                                              Segments[Len(Chain)][k]))

(***************************************************************************)
(* C14.  Fewer values than the minimum of the arity.                       *)
(***************************************************************************)
\* C14, in its second form: in a call that returned, every occurrence that a
\* named pass recorded for a Set/Append argument holds at least min and at
\* most max values.
C14_EveryOccurrenceHoldsMinToMax ==
    Returns =>
        \A l \in 1..Len(frame.consumed_log) : \A q \in 1..Len(frame.consumed_log[l]) :
            LET entry == frame.consumed_log[l][q]
                a == NamedArgOf(Len(Chain) - l + 1, entry.alias)
                bounds == _nargs_bounds(a.nargs)
            IN  a.action \in {"set", "append"} =>
                    \A g \in 1..Len(entry.groups) :
                        /\ Len(entry.groups[g]) >= bounds.min
                        /\ bounds.bounded => Len(entry.groups[g]) <= bounds.max

(***************************************************************************)
(* C15.  Which command consumes an occurrence of a named alias.            *)
(***************************************************************************)
\* The named arguments of command i that C15 puts in its lookup: all of them
\* for the terminal command, the propagated ones for the others.
InLookup(i) ==
    {k \in 1..Len(cmds[Chain[i]].arguments) :
        is_named(cmds[Chain[i]].arguments[k]) /\ ParsedFor(i, cmds[Chain[i]].arguments[k])}

HasAlias(i, alias) ==
    \E k \in InLookup(i) : alias \in Aliases(cmds[Chain[i]].arguments[k])

\* The deepest command i <= s whose lookup holds the alias, or 0.
ConsumerOf(s, alias) ==
    LET holders == {i \in 1..s : HasAlias(i, alias)}
    IN  IF holders = {} THEN 0 ELSE CHOOSE i \in holders : \A h \in holders : h <= i

\* The occurrences, segment and position, that C15 gives to argument a of
\* command i.
OccurrencesOf(i, a) ==
    UNION {{<< s, p >> : p \in {q \in 1..Len(Segments[s]) :
                                   /\ Segments[s][q] \in Aliases(a)
                                   /\ ConsumerOf(s, Segments[s][q]) = i}}
           : s \in 1..Len(Chain)}

\* The groups of values the named pass of command i recorded under an alias.
RecordedUnder(i, alias) == IF alias = NoAlias THEN <<>> ELSE GroupsOf(i, alias)

RecordedFor(i, a) == RecordedUnder(i, a.long) \o RecordedUnder(i, a.short)

\* The named pass of command i has been completed.
PassCompleted(i) ==
    DiscoveryPassed /\ Len(frame.parsed_command_chain) >= Len(Chain) - i + 1

\* The result node of command i, once its named pass is completed.
NodeOf(i) ==
    frame.parsed_command_chain[i - (Len(Chain) - Len(frame.parsed_command_chain))]

\* C15: once the named pass of command i is completed, it has recorded one
\* group of values for each occurrence of an alias in a segment j >= i of
\* which command i is the deepest command with the alias in its lookup, and
\* no other; the node of command i holds the value built from them (the
\* count of the occurrences, the flag, the converted values, or the default
\* when there is none), and holds nothing for the arguments outside its
\* lookup.  An occurrence in the segment of the terminal command of an alias
\* that the terminal command shares with a command above it is counted for
\* the terminal command.
C15_DeepestCommandConsumes ==
    \A i \in 1..Len(Chain) :
        PassCompleted(i) =>
            \A k \in 1..Len(cmds[Chain[i]].arguments) :
                LET a == cmds[Chain[i]].arguments[k]
                    stored == NodeOf(i)._parsed_arguments
                    groups == RecordedFor(i, a)
                    count == Cardinality(OccurrencesOf(i, a))
                    values == [q \in 1..Len(Concat(groups)) |->
                                  value_parser_apply(a.value_parser, Concat(groups)[q])]
                IN  is_named(a) =>
                        IF k \in InLookup(i)
                        THEN /\ Len(groups) = count
                             /\ a.id \in DOMAIN stored
                             /\ a.action = "count" => stored[a.id].value = PyInt(count)
                             /\ a.action = "store_true" => stored[a.id].value = PyBool(count > 0)
                             /\ a.action = "store_false" => stored[a.id].value = PyBool(count = 0)
                             /\ a.action \in {"set", "append"} =>
                                   stored[a.id].value =
                                       IF count = 0 THEN a.default
                                       ELSE IF Len(values) = 1 THEN values[1]
                                       ELSE PyTuple(values)
                        ELSE a.id \notin DOMAIN stored

\* The terminal command and its parent share an alias; the occurrences in the
\* segment of the terminal command are counted for it, the occurrence in the
\* segment of the parent for the parent.
C15_Witness ==
    /\ Returns
    /\ Len(Chain) = 2
    /\ \E k \in InLookup(2) : \E h \in InLookup(1) :
        LET a == cmds[Chain[2]].arguments[k]
            b == cmds[Chain[1]].arguments[h]
        IN  /\ a.action = "count" /\ b.action = "count"
            /\ Aliases(a) \cap Aliases(b) # {}
            /\ get_count(ResultNodes[2], a.id) = Returned(PyInt(2))
            /\ get_count(ResultNodes[1], b.id) = Returned(PyInt(1))
            /\ Cardinality(OccurrencesOf(2, a)) = 2

(***************************************************************************)
(* C16.  The arity of the arguments attached to a command.                 *)
(***************************************************************************)
Attached == cmds[root].arguments

\* The minimum of the arity of an argument.
ArityMin(a) == _nargs_bounds(a.nargs).min

\* The arity invariant of C16: at least one value for Set/Append, whatever
\* the form of the arity, and exactly none for StoreTrue/StoreFalse/Count.
ArityInvariant(a) ==
    IF a.action \in {"set", "append"} THEN ArityMin(a) >= 1 ELSE a.nargs = NInt(0)

\* The same, with the arity "*" let through: its minimum is 0.
ArityInvariantButStar(a) ==
    IF a.action \in {"set", "append"}
    THEN ArityMin(a) >= 1 \/ a.nargs = NStar
    ELSE a.nargs = NInt(0)

\* C16 as stated: every attached argument satisfies the arity invariant, and
\* a call that met an argument violating it raised ClapyArgumentError without
\* attaching it.
C16_AttachedSatisfyArityInvariant ==
    frame.pc = "build" =>
        /\ \A k \in 1..Len(Attached) : ArityInvariant(Attached[k])
        /\ \A k \in 1..frame.done : ArityInvariant(frame.offered[k])
        /\ frame.exc # NoExc <=>
              frame.done < Len(frame.offered) /\ ~ ArityInvariant(frame.offered[frame.done + 1])

\* C16 as amended: the same for the invariant that lets the arity "*"
\* through; the arguments before the refused one of the same call stay
\* attached, the refused one and those after it are not attached.
C16_AttachedSatisfyInvariantButStar ==
    frame.pc = "build" =>
        /\ \A k \in 1..Len(Attached) : ArityInvariantButStar(Attached[k])
        /\ frame.done <= Len(Attached)
        /\ \A k \in 1..frame.done :
              Attached[Len(Attached) - frame.done + k] = frame.offered[k]
        /\ IF frame.exc = NoExc
           THEN frame.done = Len(frame.offered)
           ELSE /\ frame.exc = ClapyArgumentError
                /\ frame.done < Len(frame.offered)
                /\ ~ ArityInvariantButStar(frame.offered[frame.done + 1])

\* A Set argument of arity "*" is attached, and a call of arguments() raised
\* on its second argument after attaching the first.
C16_Witness ==
    /\ frame.pc = "build"
    /\ \E k \in 1..Len(Attached) :
          Attached[k].action = "set" /\ Attached[k].nargs = NStar
    /\ frame.exc = ClapyArgumentError
    /\ frame.done = 1
    /\ Len(frame.offered) = 2

(***************************************************************************)
(* C17.  The unknown-arguments error.                                      *)
(***************************************************************************)
\* The tokens left in the segments, in the order of the segments.
Leftovers == Concat(frame.subarg_lists)

\* The call came to the check for extra arguments and is over.
ExtraCheckMade == Returns \/ FailsWith("Unknown extra arguments")

\* Tokens are left in two segments or more.
LeftInSeveralSegments ==
    \E j, k \in 1..Len(frame.subarg_lists) :
        j # k /\ frame.subarg_lists[j] # <<>> /\ frame.subarg_lists[k] # <<>>

\* C17: a call that came to the check for extra arguments with tokens left
\* in its segments fails with the unknown-arguments error, and the error
\* names all the tokens left in all the segments.
C17_UnknownErrorNamesAllLeftovers ==
    (ExtraCheckMade /\ Leftovers # <<>>) =>
        /\ FailsWith("Unknown extra arguments")
        /\ frame.exc.names = Leftovers

(***************************************************************************)
(* C18.  The mandatory subcommand and the chain of the result.             *)
(***************************************************************************)
\* The loop of _discover_command_path went through all the tokens: every
\* command of the chain has its segment.
ChainDiscovered == Len(frame.subarg_lists) = Len(Chain)

DeepestCommand == cmds[Chain[Len(Chain)]]

ExpectsSubcommand ==
    DeepestCommand.mandatory_subcommand /\ Len(DeepestCommand.subcommands) > 0

EverySegmentNonEmpty ==
    \A k \in 1..Len(frame.subarg_lists) : frame.subarg_lists[k] # <<>>

\* No pass has run: no ParsedCommand was made and nothing was consumed.
NothingConsumed ==
    /\ frame.segments = <<>>
    /\ frame.consumed_log = <<>>
    /\ frame.positional_log = <<>>
    /\ frame.parsed_command_chain = <<>>

\* C18: parse_from returns only when the deepest command of the discovered
\* chain has no subcommands or does not expect one; when every segment is
\* non-empty and the deepest command expects a subcommand, the call fails
\* with the parsing error that lists the subcommands of that command, before
\* anything is consumed; the names of the returned chain of ParsedCommands
\* are the discovered chain, root first.
C18_MandatorySubcommandAndReturnedChain ==
    Done =>
        /\ Returns =>
              /\ ~ ExpectsSubcommand
              /\ [k \in 1..Len(ResultNodes) |-> ResultNodes[k].name] = Chain
        /\ (ChainDiscovered /\ EverySegmentNonEmpty /\ ExpectsSubcommand) =>
              /\ FailsWith("Mandatory subcommand expected")
              /\ frame.exc.names = << DeepestCommand.name >> \o DeepestCommand.subcommands
              /\ NothingConsumed

\* The deepest command of a chain of two expects a subcommand, tokens the
\* passes would consume stand in both segments, and the call has failed.
C18_Witness ==
    /\ Done
    /\ Len(Chain) = 2
    /\ ChainDiscovered /\ EverySegmentNonEmpty /\ ExpectsSubcommand
    /\ \A k \in 1..2 : "-v" \in Range(frame.subarg_lists[k])
    /\ FailsWith("Mandatory subcommand expected")

(***************************************************************************)
(* C19.  Two calls of parse_from, one after the other, by a caller that    *)
(* keeps the definition tree and its token list between the calls.  The    *)
(* frame also holds what the caller passed to the first call (given,       *)
(* defined) and the outcome of the first call once it is over (first).     *)
(***************************************************************************)
\* The caller's list with the deletions made in the segments of the call.
TokensOfCaller_sharing_segments(tokens, f) == Concat(f.subarg_lists)

\* The caller's list when the call is over: the segments are slices of the
\* list, then the lists _expand_args builds, so no deletion reaches it.
TokensOfCaller(tokens, f) == tokens

AgainInit ==
    \E sc \in Scenarios :
        /\ cmds = sc.cmds
        /\ root = sc.root
        /\ args \in TokenLists(sc.alphabet, MaxLen + sc.extra)
        /\ frame = InitFrame(sc.root) @@ [first |-> <<>>, given |-> args, defined |-> cmds]

\* A step of the call in progress.
CallStep ==
    /\ frame.pc # "done"
    /\ frame' = StepFrame(cmds, args, frame)
    /\ args' = IF frame'.pc = "done" THEN TokensOfCaller(args, frame') ELSE args
    /\ UNCHANGED << cmds, root >>

\* The caller calls parse_from again, with the tree and the list it holds.
CallAgain ==
    /\ frame.pc = "done"
    /\ frame.first = <<>>
    /\ frame' = InitFrame(root) @@ [first |-> << Outcome(frame) >>,
                                    given |-> frame.given, defined |-> frame.defined]
    /\ UNCHANGED << cmds, root, args >>

AgainNext ==
    \/ CallStep
    \/ CallAgain

AgainSpec == AgainInit /\ [][AgainNext]_vars

OccurrenceTokens(j, alias, group) ==
    IF NamedArgOf(j, alias).action \notin {"set", "append"}
    THEN << alias >>
    ELSE << alias >> \o group

\* The tokens the named pass of command j recorded.
NamedConsumed(j, log) ==
    Concat([q \in 1..Len(log) |->
              Concat([g \in 1..Len(log[q].groups) |->
                        OccurrenceTokens(j, log[q].alias, log[q].groups[g])])])

\* The tokens the passes recorded, those of the named passes first.
AllConsumed ==
    Concat([k \in 1..Len(frame.consumed_log) |->
              NamedConsumed(Len(Chain) - k + 1, frame.consumed_log[k])])
    \o Concat([k \in 1..Len(frame.positional_log) |-> Concat(frame.positional_log[k])])

CountIn(q, t) == Cardinality({k \in 1..Len(q) : q[k] = t})

\* q and r hold the same tokens, each as many times.
SameTokens(q, r) ==
    /\ Len(q) = Len(r)
    /\ \A t \in Range(q) \cup Range(r) : CountIn(q, t) = CountIn(r, t)

\* Every alias a named pass recorded is an alias of an argument that the
\* command of the pass parses.
RecordedAliasesKnown ==
    \A k \in 1..Len(frame.consumed_log) :
        \A q \in 1..Len(frame.consumed_log[k]) :
            frame.consumed_log[k][q].alias \in LookupAliases(Len(Chain) - k + 1)

\* C20: when parse_from returns, the tokens recorded by the passes, each an
\* occurrence of a known alias or one value of one argument of one command,
\* are the tokens of the expanded segments, each as many times as it stands
\* there, and every segment is empty.
C20_EveryTokenConsumedOnce ==
    Returns =>
        /\ SameTokens(AllConsumed, Concat(Segments))
        /\ RecordedAliasesKnown
        /\ \A k \in 1..Len(frame.subarg_lists) : frame.subarg_lists[k] = <<>>

\* A chain of two commands has been returned after an alias with a value of
\* its own and a positional value were consumed, from both segments.
C20_Witness ==
    /\ Returns
    /\ Len(Chain) = 2
    /\ \A k \in 1..2 : Segments[k] # <<>>
    /\ \E k \in 1..2 : \E q \in 1..Len(frame.consumed_log[k]) :
          \E g \in 1..Len(frame.consumed_log[k][q].groups) :
              frame.consumed_log[k][q].groups[g] # <<>>
    /\ \E k \in 1..2 : \E q \in 1..Len(frame.positional_log[k]) :
          frame.positional_log[k][q] # <<>>
    /\ Len(AllConsumed) >= 4

(***************************************************************************)
(* C21.  The arguments of a non-terminal command that are not propagated.  *)
(***************************************************************************)
\* Argument k of command j of a chain of several commands is not parsed:
\* the command is not the terminal one and the argument is not propagated.
Unparsed(j, k) ==
    /\ Len(Chain) > 1
    /\ j < Len(Chain)
    /\ ~ cmds[Chain[j]].arguments[k].propagate

\* An alias of the named argument a stands in the segment of command j.
SuppliedInOwnSegment(j, a) ==
    is_named(a) /\ \E p \in 1..Len(Segments[j]) : Segments[j][p] \in Aliases(a)

\* No command scanning the segment of command j looks for the alias.
NotLookedFor(j, alias) == \A i \in 1..j : alias \notin LookupAliases(i)

\* The pass of command j raised a missing-required error naming a.
MissingRaisedFor(j, a) ==
    \/ /\ FailsWith("Missing required named argument")
       /\ frame.positional_log = <<>>
       /\ Len(frame.consumed_log) = Len(Chain) - j + 1
       /\ is_named(a)
       /\ frame.exc.names = << MissingNamedText(a) >>
    \/ /\ FailsWith("Missing required positional argument")
       /\ Len(frame.positional_log) = j
       /\ is_positional(a)
       /\ frame.exc.names = << a.id >>

\* C21 as stated: an unparsed argument is absent from the node of its
\* command, and a call whose token list supplies it fails as unknown extra
\* arguments.
C21_SuppliedUnparsedFailsAsUnknown ==
    (Done /\ DiscoveryPassed) =>
        \A j \in 1..Len(Chain) : \A k \in 1..Len(cmds[Chain[j]].arguments) :
            Unparsed(j, k) =>
                LET a == cmds[Chain[j]].arguments[k]
                IN  /\ Returns => get_any(ResultNodes[j], a.id) = Returned(PyNone)
                    /\ SuppliedInOwnSegment(j, a) => FailsWith("Unknown extra arguments")

\* C21 as amended: an unparsed argument is never in the node of its command
\* and no missing-required error is raised for it; an alias of it that no
\* command scanning the segment looks for stays in the segment, and the call
\* does not return.
C21_UnparsedAliasStaysAndCallDoesNotReturn ==
    DiscoveryPassed =>
        \A j \in 1..Len(Chain) : \A k \in 1..Len(cmds[Chain[j]].arguments) :
            Unparsed(j, k) =>
                LET a == cmds[Chain[j]].arguments[k]
                IN  /\ PassCompleted(j) => a.id \notin DOMAIN NodeOf(j)._parsed_arguments
                    /\ Returns => get_any(ResultNodes[j], a.id) = Returned(PyNone)
                    /\ ~ MissingRaisedFor(j, a)
                    /\ \A alias \in Aliases(a) :
                          NotLookedFor(j, alias) =>
                              /\ CountIn(frame.subarg_lists[j], alias)
                                    = CountIn(Segments[j], alias)
                              /\ CountIn(Segments[j], alias) > 0 => ~ Returns

\* Both passes are over, the alias of an unparsed argument with a default
\* is left in the segment of its command, and the call has failed.
C21_Witness ==
    /\ DiscoveryPassed
    /\ FailsWith("Unknown extra arguments")
    /\ \E j \in 1..Len(Chain) : \E k \in 1..Len(cmds[Chain[j]].arguments) :
          LET a == cmds[Chain[j]].arguments[k]
          IN  /\ Unparsed(j, k)
              /\ a.default # PyNone
              /\ SuppliedInOwnSegment(j, a)
              /\ \A alias \in Aliases(a) : NotLookedFor(j, alias)
              /\ \E alias \in Aliases(a) : alias \in Range(frame.subarg_lists[j])

(***************************************************************************)
(* C22.  The end-of-named-arguments marker.                                *)
(***************************************************************************)
\* The token list holds the marker, and no command has it as the name of a
\* subcommand.
StopTokenGiven ==
    /\ NAMED_ARGUMENTS_STOP_TOKEN \in Range(args)
    /\ \A c \in DOMAIN cmds : NAMED_ARGUMENTS_STOP_TOKEN \notin Range(cmds[c].subcommands)

\* No pass has taken a marker out of the segments.
StopTokenNeverConsumed ==
    DiscoveryPassed =>
        CountIn(Concat(frame.subarg_lists), NAMED_ARGUMENTS_STOP_TOKEN)
            = CountIn(Concat(Segments), NAMED_ARGUMENTS_STOP_TOKEN)

\* No value recorded by a pass is a marker.
StopTokenNeverAValue == NAMED_ARGUMENTS_STOP_TOKEN \notin Range(AllConsumed)

\* Once the named passes are over, no segment holds an alias that a command
\* scanning the segment looks for, be it before or after a marker.
AliasesTakenAfterStopToken ==
    (DiscoveryPassed /\ Len(frame.parsed_command_chain) = Len(Chain)) =>
        \A s \in 1..Len(Chain) : \A p \in 1..Len(frame.subarg_lists[s]) :
            \A i \in 1..s : frame.subarg_lists[s][p] \notin LookupAliases(i)

\* The call ended in a parsing error or in the exit of a help request.
EndsInParsingErrorOrHelp ==
    Done /\ (frame.exc.type = "ClapyParsingError" \/ frame.help_printed # <<>>)

\* C22: the marker is never consumed, aliases after it are still taken as
\* named, and a call whose token list holds it never returns: it ends in a
\* parsing error or in a help exit.
C22_StopTokenNeverYieldsResult ==
    StopTokenGiven =>
        /\ StopTokenNeverConsumed
        /\ StopTokenNeverAValue
        /\ AliasesTakenAfterStopToken
        /\ Done => (~ Returns /\ EndsInParsingErrorOrHelp)

====
